---- MODULE Spec2Model ----
(***************************************************************************)
(* Model of the QiFlow swarm heartbeat agent (core/heartbeat.py).          *)
(*                                                                         *)
(* Spec      the start()/stop() lifecycle called from several caller       *)
(*           threads, and the background threads running _heartbeat_loop.  *)
(* SpecSend  one call of send_heartbeat(metrics) against an endpoint whose *)
(*           answers are chosen by the environment.                        *)
(***************************************************************************)
EXTENDS Integers, Sequences, FiniteSets, TLC

\* ------------------------------------------------------------------ bounds
\* number of Thread objects start() may create in one behaviour
MaxThreads == 2

\* ------------------------------------------------------- program constants
\* self.max_retries = 3
max_retries == 3

\* ---------------------------------------------------------------- domains
\* threads that call start() / stop() on the one HeartbeatAgent
Callers == {"c1", "c2"}

\* identities of the Thread objects created by start(); 0 is None
Threads == 1..MaxThreads

None == "None"
Url == "https://backend/api/v1/heartbeat"

\* the values of self.monitor_url: unset, or a URL
MonitorUrls == {None, Url}

\* metrics dictionaries handed to send_heartbeat
Snapshots == {"m1", "m2"}

\* HTTP status codes the endpoint may answer with
Statuses == {200, 201, 299, 300, 503}

Response(s) == [kind |-> "response", status |-> s, body |-> "-"]
RequestException == [kind |-> "RequestException", status |-> 0, body |-> "-"]
UnexpectedException == [kind |-> "Exception", status |-> 0, body |-> "-"]

\* what one requests.post(...) call can do: answer, or raise
Outcomes == {Response(s) : s \in Statuses} \cup {RequestException, UnexpectedException}

VARIABLES
    running,      \* self.running
    thread,       \* self.thread: a Thread identity, 0 for None
    monitor_url,  \* self.monitor_url
    pc,           \* position of each caller inside start() / stop()
    overlap,      \* history: another caller wrote self.running during this call
    lpc,          \* position of each Thread inside _heartbeat_loop
    att,          \* loop variable `attempt` of the thread's send_heartbeat
    done,         \* calls completed by the thread in its current cycle
    success,      \* local `success` of the thread's current cycle
    err,          \* step whose failure the thread logged in its current cycle
    sPc,          \* position of the single send_heartbeat call
    sMetrics,     \* its argument
    sAttempt,     \* its loop variable `attempt`
    sLog,         \* its requests.post and time.sleep calls, in order
    sResult,      \* its return value
    github_repo,  \* self.github_repo, read from the shared settings.ini
    swarm_id,     \* self.swarm_id
    now,          \* the UTC wall clock, in seconds
    ticks,        \* number of clock advances so far
    issues_cache, \* ProjectTracker._issues_cache: <<>> for None, else <<list>>
    cache_time,   \* ProjectTracker._cache_time: <<>> for None, else <<seconds>>
    fpc,          \* position of each caller inside _fetch_github_issues
    flocal,       \* its local `issues` after the pull-request filter
    fret,         \* its return value
    fout,         \* how its call ended
    fetches,      \* number of requests.get calls made to the issue source
    freq,         \* history: the answered request a caller is about to cache
    stamp,        \* history: the requests whose callers wrote the list and the time
    snap,         \* result of the last collect_metrics call: <<>> or <<result>>
    tz,           \* offset of the host's local time from UTC, in hours
    files,        \* content of logs/heartbeat_<date>.json, per date
    appends,      \* number of _log_metrics_locally calls so far
    aret,         \* how the last _log_metrics_locally call left: returned or raised
    aout,         \* what it logged: nothing, or the error it caught
    issues,       \* an issue list handed to the ProjectTracker's calculations
    flag_cfg,     \* flag_blocked_hours and flag_failures_threshold
    calc,         \* the calculation called last and what it returned
    api           \* the REST server's status codes so far and its last response

lifeVars == <<running, thread, pc, overlap, lpc, att, done, success, err>>
sendVars == <<sPc, sMetrics, sAttempt, sLog, sResult>>
trackerVars == <<issues_cache, cache_time, fpc, flocal, fret, fout, fetches, freq, stamp>>
logVars == <<tz, files, appends, aret, aout>>
calcVars == <<issues, flag_cfg, calc, api>>
dataVars == <<github_repo, swarm_id, now, ticks, snap, trackerVars, logVars, calcVars>>
vars == <<running, thread, monitor_url, pc, overlap, lpc, att, done, success, err,
          sPc, sMetrics, sAttempt, sLog, sResult, dataVars>>

\* ------------------------------------------------------- send_heartbeat
\* `if not self.monitor_url`
NotConfigured_Skipped(url) == FALSE

NotConfigured(url) == url = None

\* `if response.status_code == 200`
IsSuccess(o) == o.kind = "response" /\ o.status = 200

\* what the body of the retry loop does after one requests.post outcome:
\* return True, sleep retry_delay, go to the next iteration, or break
AfterAttempt_NoBreak(o, attempt) ==
    IF IsSuccess(o) THEN "return_true"
    ELSE IF o.kind = "RequestException" /\ attempt < max_retries - 1 THEN "sleep"
    ELSE "next"

AfterAttempt(o, attempt) ==
    IF o.kind = "Exception" THEN "break"
    ELSE IF IsSuccess(o) THEN "return_true"
    ELSE IF o.kind = "RequestException" /\ attempt < max_retries - 1 THEN "sleep"
    ELSE "next"

\* a time.sleep(self.retry_delay) call, as an entry of the call log
RetrySleep == [kind |-> "sleep", status |-> 0, body |-> "-"]

\* threads that call into the ProjectTracker (facade requests, the loop)
FCallers == {"f1", "f2"}

Repo == "owner/repo"

\* the values of self.github_repo: unset, or a repository
GithubRepos == {None, Repo}

\* strings are sequences of characters
DefaultSwarm == <<"a">>

\* the clock value at which a behaviour starts: noon of day 1
Epoch == 129600

\* the state of the ProjectTracker after __init__
TrackerInit ==
    /\ issues_cache = <<>>
    /\ cache_time = <<>>
    /\ fpc = [c \in FCallers |-> "idle"]
    /\ flocal = [c \in FCallers |-> <<>>]
    /\ fret = [c \in FCallers |-> <<>>]
    /\ fout = [c \in FCallers |-> "none"]
    /\ fetches = 0
    /\ freq = [c \in FCallers |-> <<>>]
    /\ stamp = [list |-> 0, time |-> 0]

\* the thresholds ProjectTracker.__init__ falls back to
DefaultFlagCfg == [blocked_hours |-> 24, failures_threshold |-> 3]

\* no calculation of the ProjectTracker has been called
NoCalc == [fn |-> "none", out |-> <<>>]

\* the REST server has answered no request
NoResponses == [served |-> <<>>, response |-> <<>>]

CalcIdle ==
    /\ issues = <<>>
    /\ flag_cfg = DefaultFlagCfg
    /\ calc = NoCalc
    /\ api = NoResponses

\* seconds per hour and per day
Hour == 3600
Day == 86400

\* longest advance of the clock in one step of the log model
LongTick == 11 * Hour

\* number of clock advances in one behaviour
MaxTicks == 3

\* the dates a log file can carry, as day numbers
Days == 0..((Epoch + MaxTicks * LongTick + 9 * Hour) \div Day)

\* no _log_metrics_locally call yet, on a host whose local time is UTC
LogInit ==
    /\ tz = 0
    /\ files = [d \in Days |-> <<>>]
    /\ appends = 0
    /\ aret = "none"
    /\ aout = "none"

\* no repository, no collect_metrics call, a clock that stands still
DataIdle ==
    /\ LogInit
    /\ github_repo = None
    /\ swarm_id = DefaultSwarm
    /\ now = Epoch
    /\ ticks = 0
    /\ snap = <<>>
    /\ TrackerInit
    /\ CalcIdle

\* the state of the agent after __init__
LifeInit ==
    /\ running = FALSE
    /\ thread = 0
    /\ pc = [c \in Callers |-> "idle"]
    /\ overlap = [c \in Callers |-> FALSE]
    /\ lpc = [t \in Threads |-> "none"]
    /\ att = [t \in Threads |-> 0]
    /\ done = [t \in Threads |-> <<>>]
    /\ success = [t \in Threads |-> "unset"]
    /\ err = [t \in Threads |-> "none"]

\* no send_heartbeat call outside the loop
SendIdle ==
    /\ sPc = "idle"
    /\ sMetrics = "m1"
    /\ sAttempt = 0
    /\ sLog = <<>>
    /\ sResult = "unset"

\* entry of send_heartbeat: the monitor_url check
SendEntry ==
    /\ sPc = "idle"
    /\ IF NotConfigured(monitor_url)
       THEN /\ sResult' = "False"
            /\ sPc' = "returned"
       ELSE /\ sResult' = sResult
            /\ sPc' = "post"
    /\ UNCHANGED <<sMetrics, sAttempt, sLog, monitor_url>>
    /\ UNCHANGED lifeVars
    /\ UNCHANGED dataVars

\* one iteration of `for attempt in range(self.max_retries)`:
\* requests.post(json=metrics) and the handling of its outcome
SendPost ==
    /\ sPc = "post"
    /\ \E o \in Outcomes :
         /\ sLog' = Append(sLog, [o EXCEPT !.body = sMetrics])
         /\ LET a == AfterAttempt(o, sAttempt) IN
            CASE a = "return_true" ->
                   /\ sResult' = "True"
                   /\ sPc' = "returned"
                   /\ sAttempt' = sAttempt
              [] a = "break" ->
                   /\ sResult' = "False"
                   /\ sPc' = "returned"
                   /\ sAttempt' = sAttempt
              [] a = "sleep" ->
                   /\ sResult' = sResult
                   /\ sPc' = "sleep"
                   /\ sAttempt' = sAttempt
              [] OTHER ->
                   IF sAttempt + 1 < max_retries
                   THEN /\ sResult' = sResult
                        /\ sPc' = "post"
                        /\ sAttempt' = sAttempt + 1
                   ELSE /\ sResult' = "False"
                        /\ sPc' = "returned"
                        /\ sAttempt' = sAttempt
    /\ UNCHANGED <<sMetrics, monitor_url>>
    /\ UNCHANGED lifeVars
    /\ UNCHANGED dataVars

\* time.sleep(self.retry_delay) in the RequestException handler
SendSleep ==
    /\ sPc = "sleep"
    /\ sLog' = Append(sLog, RetrySleep)
    /\ sAttempt' = sAttempt + 1
    /\ sPc' = "post"
    /\ UNCHANGED <<sMetrics, sResult, monitor_url>>
    /\ UNCHANGED lifeVars
    /\ UNCHANGED dataVars

SendInit ==
    /\ monitor_url \in MonitorUrls
    /\ sMetrics \in Snapshots
    /\ sPc = "idle"
    /\ sAttempt = 0
    /\ sLog = <<>>
    /\ sResult = "unset"
    /\ LifeInit
    /\ DataIdle

SendNext == SendEntry \/ SendPost \/ SendSleep

SpecSend == SendInit /\ [][SendNext]_vars

\* ------------------------------------------- properties of send_heartbeat
\* the requests.post calls made so far, in order
Posts == SelectSeq(sLog, LAMBDA e : e.kind # "sleep")

\* an attempt answered with a status in 200..299
Is2xx(o) == o.kind = "response" /\ o.status >= 200 /\ o.status <= 299

\* an attempt that failed with a non-2xx response or a transport failure
IsRetryable(o) == (o.kind = "response" /\ ~Is2xx(o)) \/ o.kind = "RequestException"

\* C2: send makes at most max_retries attempts, makes no attempt after a
\* successful (2xx) one and returns True on it; when the first max_retries
\* outcomes are all non-2xx responses or transport failures it returns False
\* after exactly max_retries attempts.
C2_StopsAtFirstSuccess ==
    /\ Len(Posts) <= max_retries
    /\ \A i \in 1..(Len(Posts) - 1) : ~Is2xx(Posts[i])
    /\ (sPc = "returned" /\ Len(Posts) > 0 /\ Is2xx(Posts[Len(Posts)]))
          => sResult = "True"
    /\ (sPc = "returned" /\ monitor_url # None
          /\ \A i \in 1..Len(Posts) : IsRetryable(Posts[i]))
          => (sResult = "False" /\ Len(Posts) = max_retries)

\* C3: whenever an attempt's response carries a 2xx status, send returns True.
C3_Any2xxIsSuccess ==
    (sPc = "returned" /\ \E i \in 1..Len(Posts) : Is2xx(Posts[i]))
        => sResult = "True"

\* C4: between every two consecutive attempts there is one retry_delay wait,
\* whatever made the earlier attempt fail, and there is no wait after the
\* last attempt.
C4_FixedDelayBetweenAttempts ==
    /\ \A i \in 1..(Len(sLog) - 1) :
          /\ IsRetryable(sLog[i]) => sLog[i + 1].kind = "sleep"
          /\ sLog[i].kind = "sleep" => sLog[i + 1].kind # "sleep"
    /\ (sPc = "returned" /\ Len(sLog) > 0) => sLog[Len(sLog)].kind # "sleep"

\* C5: an attempt that fails with an unexpected error is the last attempt,
\* and send returns False to its caller.
C5_UnexpectedErrorAborts ==
    \A i \in 1..Len(sLog) :
        sLog[i].kind = "Exception"
            => (i = Len(sLog) /\ sPc = "returned" /\ sResult = "False")

\* send returned after an unexpected error on an attempt before the last one
C5_Witness ==
    /\ sPc = "returned"
    /\ Len(Posts) > 0
    /\ Len(Posts) < max_retries
    /\ Posts[Len(Posts)].kind = "Exception"

\* C6: with no monitor_url configured send makes no network attempt and
\* returns False.
C6_NoUrlNoAttempt ==
    monitor_url = None
        => (sLog = <<>> /\ sPc # "post" /\ sPc # "sleep"
            /\ (sPc = "returned" => sResult = "False"))

\* send returned with no monitor_url configured
C6_Witness ==
    /\ monitor_url = None
    /\ sPc = "returned"

\* ------------------------------------------------------ _heartbeat_loop
\* positions of a thread that is executing _heartbeat_loop
LoopPositions == {"check", "collect", "send", "retry_sleep", "log", "sleep"}

\* where a cycle goes when one of its calls raises:
\* `except Exception` logs, then falls through to time.sleep(self.interval)
LoopOnError_Exit == "exited"

LoopOnError == "sleep"

\* where a cycle goes once send_heartbeat returned `success`:
\* _log_metrics_locally is called before `if not success`
LoopAfterSend_SkipOnFailure(s) == IF s = "False" THEN "sleep" ELSE "log"

\* a loop that tests self.running again before it logs
LoopAfterSend_StopAware(s) == IF running THEN "log" ELSE "exited"

LoopAfterSend(s) == "log"

\* the condition of `while self.running:`
LoopContinues_Forever(flag) == TRUE

LoopContinues(flag) == flag

\* `while self.running`
LoopCheck(t) ==
    /\ lpc[t] = "check"
    /\ lpc' = [lpc EXCEPT ![t] = IF LoopContinues(running) THEN "collect" ELSE "exited"]
    /\ UNCHANGED <<running, thread, monitor_url, pc, overlap, att, done, success, err>>
    /\ UNCHANGED sendVars
    /\ UNCHANGED dataVars

\* metrics = self.collect_metrics(): returns a snapshot, or raises
\* (_collect_system_metrics has no handler of its own)
LoopCollect(t) ==
    /\ lpc[t] = "collect"
    /\ \E ok \in BOOLEAN :
         IF ok
         THEN /\ lpc' = [lpc EXCEPT ![t] = "send"]
              /\ done' = [done EXCEPT ![t] = <<"collect">>]
              /\ err' = err
         ELSE /\ lpc' = [lpc EXCEPT ![t] = LoopOnError]
              /\ done' = done
              /\ err' = [err EXCEPT ![t] = "collect"]
    /\ UNCHANGED <<running, thread, monitor_url, pc, overlap, att, success>>
    /\ UNCHANGED sendVars
    /\ UNCHANGED dataVars

\* send_heartbeat returns r to the loop
LoopSendReturns(t, r) ==
    /\ success' = [success EXCEPT ![t] = r]
    /\ done' = [done EXCEPT ![t] = Append(done[t], "send")]
    /\ lpc' = [lpc EXCEPT ![t] = LoopAfterSend(r)]
    /\ att' = [att EXCEPT ![t] = 0]

\* success = self.send_heartbeat(metrics): the monitor_url check, then one
\* iteration of the retry loop per step
LoopSend(t) ==
    /\ lpc[t] = "send"
    /\ IF NotConfigured(monitor_url)
       THEN LoopSendReturns(t, "False")
       ELSE \E o \in Outcomes :
              LET a == AfterAttempt(o, att[t])
              IN CASE a = "return_true" -> LoopSendReturns(t, "True")
                   [] a = "break" -> LoopSendReturns(t, "False")
                   [] a = "sleep" ->
                        /\ lpc' = [lpc EXCEPT ![t] = "retry_sleep"]
                        /\ UNCHANGED <<att, done, success>>
                   [] OTHER ->
                        IF att[t] + 1 < max_retries
                        THEN /\ att' = [att EXCEPT ![t] = att[t] + 1]
                             /\ UNCHANGED <<lpc, done, success>>
                        ELSE LoopSendReturns(t, "False")
    /\ UNCHANGED <<running, thread, monitor_url, pc, overlap, err>>
    /\ UNCHANGED sendVars
    /\ UNCHANGED dataVars

\* time.sleep(self.retry_delay) inside send_heartbeat
LoopRetrySleep(t) ==
    /\ lpc[t] = "retry_sleep"
    /\ lpc' = [lpc EXCEPT ![t] = "send"]
    /\ att' = [att EXCEPT ![t] = att[t] + 1]
    /\ UNCHANGED <<running, thread, monitor_url, pc, overlap, done, success, err>>
    /\ UNCHANGED sendVars
    /\ UNCHANGED dataVars

\* self._log_metrics_locally(metrics): appends, or logs its own failure
LoopLog(t) ==
    /\ lpc[t] = "log"
    /\ \E ok \in BOOLEAN :
         err' = [err EXCEPT ![t] = IF ok THEN err[t] ELSE "log"]
    /\ done' = [done EXCEPT ![t] = Append(done[t], "log")]
    /\ lpc' = [lpc EXCEPT ![t] = "sleep"]
    /\ UNCHANGED <<running, thread, monitor_url, pc, overlap, att, success>>
    /\ UNCHANGED sendVars
    /\ UNCHANGED dataVars

\* time.sleep(self.interval); the cycle's locals are dead afterwards
LoopSleep(t) ==
    /\ lpc[t] = "sleep"
    /\ lpc' = [lpc EXCEPT ![t] = "check"]
    /\ done' = [done EXCEPT ![t] = <<>>]
    /\ success' = [success EXCEPT ![t] = "unset"]
    /\ err' = [err EXCEPT ![t] = "none"]
    /\ UNCHANGED <<running, thread, monitor_url, pc, overlap, att>>
    /\ UNCHANGED sendVars
    /\ UNCHANGED dataVars

\* ---------------------------------------------------------- start / stop
\* Thread objects not yet created
FreeThreads == {t \in Threads : lpc[t] = "none"}

\* callers that passed the check of start() and have not created their Thread
PendingCreates == {c \in Callers : pc[c] \in {"start_set", "start_create"}}

\* a write of self.running by caller d falls inside the calls in progress
MarkOverlap(d) ==
    [c \in Callers |-> IF c # d /\ pc[c] # "idle" THEN TRUE ELSE overlap[c]]

\* start(): `if self.running` without the early return
StartCheck_NoGuard(c) ==
    /\ pc[c] = "idle"
    /\ Cardinality(FreeThreads) > Cardinality(PendingCreates)
    /\ pc' = [pc EXCEPT ![c] = "start_set"]
    /\ overlap' = [overlap EXCEPT ![c] = FALSE]
    /\ UNCHANGED <<running, thread, monitor_url, lpc, att, done, success, err>>
    /\ UNCHANGED sendVars
    /\ UNCHANGED dataVars

\* start(): `if self.running`
StartCheck(c) ==
    /\ pc[c] = "idle"
    /\ Cardinality(FreeThreads) > Cardinality(PendingCreates)
    /\ pc' = [pc EXCEPT ![c] = IF running THEN "start_warn" ELSE "start_set"]
    /\ overlap' = [overlap EXCEPT ![c] = FALSE]
    /\ UNCHANGED <<running, thread, monitor_url, lpc, att, done, success, err>>
    /\ UNCHANGED sendVars
    /\ UNCHANGED dataVars

\* start(): logger.warning("already running"); return
StartWarn(c) ==
    /\ pc[c] = "start_warn"
    /\ pc' = [pc EXCEPT ![c] = "idle"]
    /\ UNCHANGED <<running, thread, monitor_url, overlap, lpc, att, done, success, err>>
    /\ UNCHANGED sendVars
    /\ UNCHANGED dataVars

\* start(): self.running = True
StartSet(c) ==
    /\ pc[c] = "start_set"
    /\ running' = TRUE
    /\ overlap' = MarkOverlap(c)
    /\ pc' = [pc EXCEPT ![c] = "start_create"]
    /\ UNCHANGED <<thread, monitor_url, lpc, att, done, success, err>>
    /\ UNCHANGED sendVars
    /\ UNCHANGED dataVars

\* start(): self.thread = threading.Thread(target=self._heartbeat_loop)
StartCreate(c) ==
    /\ pc[c] = "start_create"
    /\ FreeThreads # {}
    /\ LET t == CHOOSE x \in FreeThreads : \A y \in FreeThreads : x <= y IN
         /\ thread' = t
         /\ lpc' = [lpc EXCEPT ![t] = "created"]
    /\ pc' = [pc EXCEPT ![c] = "start_spawn"]
    /\ UNCHANGED <<running, monitor_url, overlap, att, done, success, err>>
    /\ UNCHANGED sendVars
    /\ UNCHANGED dataVars

\* start(): self.thread.start(); a Thread that another caller already
\* started raises RuntimeError out of start()
StartSpawn(c) ==
    /\ pc[c] = "start_spawn"
    /\ IF lpc[thread] = "created"
       THEN /\ lpc' = [lpc EXCEPT ![thread] = "check"]
            /\ pc' = [pc EXCEPT ![c] = "start_done"]
       ELSE /\ lpc' = lpc
            /\ pc' = [pc EXCEPT ![c] = "idle"]
    /\ UNCHANGED <<running, thread, monitor_url, overlap, att, done, success, err>>
    /\ UNCHANGED sendVars
    /\ UNCHANGED dataVars

\* start(): logger.info("started"); return
StartDone(c) ==
    /\ pc[c] = "start_done"
    /\ pc' = [pc EXCEPT ![c] = "idle"]
    /\ UNCHANGED <<running, thread, monitor_url, overlap, lpc, att, done, success, err>>
    /\ UNCHANGED sendVars
    /\ UNCHANGED dataVars

\* stop(): `if not self.running`
StopCheck(c) ==
    /\ pc[c] = "idle"
    /\ pc' = [pc EXCEPT ![c] = IF ~running THEN "stop_warn" ELSE "stop_set"]
    /\ overlap' = [overlap EXCEPT ![c] = FALSE]
    /\ UNCHANGED <<running, thread, monitor_url, lpc, att, done, success, err>>
    /\ UNCHANGED sendVars
    /\ UNCHANGED dataVars

\* stop(): logger.warning("not running"); return
StopWarn(c) ==
    /\ pc[c] = "stop_warn"
    /\ pc' = [pc EXCEPT ![c] = "idle"]
    /\ UNCHANGED <<running, thread, monitor_url, overlap, lpc, att, done, success, err>>
    /\ UNCHANGED sendVars
    /\ UNCHANGED dataVars

\* stop() that goes on to join without clearing the flag
StopSet_KeepsFlag(c) ==
    /\ pc[c] = "stop_set"
    /\ running' = running
    /\ overlap' = MarkOverlap(c)
    /\ pc' = [pc EXCEPT ![c] = "stop_join"]
    /\ UNCHANGED <<thread, monitor_url, lpc, att, done, success, err>>
    /\ UNCHANGED sendVars
    /\ UNCHANGED dataVars

\* stop(): self.running = False
StopSet(c) ==
    /\ pc[c] = "stop_set"
    /\ running' = FALSE
    /\ overlap' = MarkOverlap(c)
    /\ pc' = [pc EXCEPT ![c] = "stop_join"]
    /\ UNCHANGED <<thread, monitor_url, lpc, att, done, success, err>>
    /\ UNCHANGED sendVars
    /\ UNCHANGED dataVars

\* stop(): `if self.thread: self.thread.join(timeout=5)`. join returns when
\* the thread has exited or when the 5 seconds are over, whichever is first;
\* on a Thread that was created and not started it raises RuntimeError
StopJoin(c) ==
    /\ pc[c] = "stop_join"
    /\ pc' = [pc EXCEPT ![c] = IF thread # 0 /\ lpc[thread] = "created"
                               THEN "idle" ELSE "stop_done"]
    /\ UNCHANGED <<running, thread, monitor_url, overlap, lpc, att, done, success, err>>
    /\ UNCHANGED sendVars
    /\ UNCHANGED dataVars

\* stop(): logger.info("stopped"); return
StopDone(c) ==
    /\ pc[c] = "stop_done"
    /\ pc' = [pc EXCEPT ![c] = "idle"]
    /\ UNCHANGED <<running, thread, monitor_url, overlap, lpc, att, done, success, err>>
    /\ UNCHANGED sendVars
    /\ UNCHANGED dataVars

\* get_status()
get_status == [running |-> running, monitor_url |-> monitor_url]

Init ==
    /\ monitor_url \in MonitorUrls
    /\ LifeInit
    /\ SendIdle
    /\ DataIdle

Next ==
    \/ \E c \in Callers : StartCheck(c)
    \/ \E c \in Callers : StartWarn(c)
    \/ \E c \in Callers : StartSet(c)
    \/ \E c \in Callers : StartCreate(c)
    \/ \E c \in Callers : StartSpawn(c)
    \/ \E c \in Callers : StartDone(c)
    \/ \E c \in Callers : StopCheck(c)
    \/ \E c \in Callers : StopWarn(c)
    \/ \E c \in Callers : StopSet(c)
    \/ \E c \in Callers : StopJoin(c)
    \/ \E c \in Callers : StopDone(c)
    \/ \E t \in Threads : LoopCheck(t)
    \/ \E t \in Threads : LoopCollect(t)
    \/ \E t \in Threads : LoopSend(t)
    \/ \E t \in Threads : LoopRetrySleep(t)
    \/ \E t \in Threads : LoopLog(t)
    \/ \E t \in Threads : LoopSleep(t)

Spec == Init /\ [][Next]_vars

\* one step of a Thread that runs _heartbeat_loop
LoopStep(t) ==
    \/ LoopCheck(t)
    \/ LoopCollect(t)
    \/ LoopSend(t)
    \/ LoopRetrySleep(t)
    \/ LoopLog(t)
    \/ LoopSleep(t)

\* main(): one thread calls start() and, on KeyboardInterrupt, stop()
Controller == "c1"

ControllerStep ==
    \/ StartCheck(Controller)
    \/ StartWarn(Controller)
    \/ StartSet(Controller)
    \/ StartCreate(Controller)
    \/ StartSpawn(Controller)
    \/ StartDone(Controller)
    \/ StopCheck(Controller)
    \/ StopWarn(Controller)
    \/ StopSet(Controller)
    \/ StopJoin(Controller)
    \/ StopDone(Controller)

LiveNext == ControllerStep \/ \E t \in Threads : LoopStep(t)

\* a started Thread keeps being scheduled, and every call it makes returns:
\* requests.post has timeout=10, the sleeps are finite
SpecLive == Init /\ [][LiveNext]_vars /\ \A t \in Threads : WF_vars(LoopStep(t))

\* ------------------------------------------- properties of the lifecycle
\* threads currently executing _heartbeat_loop
LoopThreads == {t \in Threads : lpc[t] \in LoopPositions}

\* the order of the calls of one cycle
CycleOrder == <<"collect", "send", "log">>

\* C1: at most one background thread is ever executing the heartbeat loop.
C1_AtMostOneLoop == Cardinality(LoopThreads) <= 1

\* C7: in every cycle collect_metrics comes before send_heartbeat, which
\* returns before _log_metrics_locally is called; a cycle that collected a
\* snapshot reaches the local log whatever send_heartbeat returned.
C7_CollectSendLogOrder ==
    \A t \in Threads :
        /\ \E n \in 0..3 : done[t] = SubSeq(CycleOrder, 1, n)
        /\ lpc[t] \in {"send", "retry_sleep"} => done[t] = <<"collect">>
        /\ lpc[t] = "log" => (done[t] = <<"collect", "send">> /\ success[t] # "unset")
        /\ (lpc[t] \notin {"send", "retry_sleep", "log"} /\ done[t] # <<>>)
              => done[t] = CycleOrder

\* a cycle whose delivery to a configured endpoint failed has reached its
\* local log call
C7_Witness ==
    \E t \in Threads :
        /\ monitor_url = Url
        /\ lpc[t] = "sleep"
        /\ success[t] = "False"
        /\ done[t] = CycleOrder

\* C8: an error in a cycle never ends the loop: the thread leaves the loop
\* only through `while self.running`; after an error it waits the interval,
\* and after the wait it begins another cycle while the agent is running.
C8_LoopSurvivesErrors ==
    [][\A t \in Threads :
        /\ (lpc[t] # "exited" /\ lpc'[t] = "exited") => (lpc[t] = "check" /\ ~running)
        /\ (err'[t] # err[t] /\ err'[t] # "none") => lpc'[t] = "sleep"
        /\ (lpc[t] = "sleep" /\ lpc'[t] # "sleep") => lpc'[t] = "check"
        /\ (lpc[t] = "check" /\ lpc'[t] # "check" /\ running) => lpc'[t] = "collect"
      ]_vars

\* collect_metrics raised, and the thread is waiting for its next cycle
C8_Witness ==
    \E t \in Threads :
        /\ lpc[t] = "sleep"
        /\ err[t] = "collect"
        /\ running

\* C9: the agent is Idle or Running and starts Idle; self.running becomes
\* True only by the assignment in start() and False only by the one in
\* stop(); get_status().running is True when start() returns and False when
\* stop() returns (calls during which no other caller wrote the flag).
C9_RunningOnlyViaStartStop ==
    /\ ~running
    /\ [](get_status.running \in BOOLEAN)
    /\ [][running' # running =>
            \E c \in Callers :
                \/ pc[c] = "start_set" /\ pc'[c] = "start_create" /\ running'
                \/ pc[c] = "stop_set" /\ pc'[c] = "stop_join" /\ ~running'
         ]_vars
    /\ [](\A c \in Callers :
            ~overlap[c] =>
                /\ pc[c] \in {"start_done", "start_warn"} => get_status.running
                /\ pc[c] \in {"stop_done", "stop_warn"} => ~get_status.running)

\* stop() is returning after it stopped an agent that start() had started
C9_Witness ==
    \E c \in Callers :
        /\ pc[c] = "stop_done"
        /\ ~overlap[c]
        /\ thread # 0
        /\ lpc[thread] # "created"
        /\ ~get_status.running

\* C10: start() on a Running agent and stop() on an Idle agent take the
\* warning path and return; neither step of that path changes self.running,
\* self.thread or any thread.
C10_NoOpStartStop ==
    [][\A c \in Callers :
        /\ (pc[c] = "idle" /\ pc'[c] \in {"start_warn", "start_set"} /\ running)
              => (pc'[c] = "start_warn" /\ UNCHANGED <<running, thread, lpc>>)
        /\ (pc[c] = "idle" /\ pc'[c] \in {"stop_warn", "stop_set"} /\ ~running)
              => (pc'[c] = "stop_warn" /\ UNCHANGED <<running, thread, lpc>>)
        /\ (pc[c] \in {"start_warn", "stop_warn"} /\ pc'[c] # pc[c])
              => (pc'[c] = "idle" /\ UNCHANGED <<running, thread, lpc>>)
      ]_vars

\* one caller is in the no-op path of start() while a loop thread is alive,
\* the other in the no-op path of stop()
C10_Witness ==
    \E c, d \in Callers :
        /\ pc[c] = "start_warn"
        /\ pc[d] = "stop_warn"
        /\ LoopThreads # {}

\* positions of a thread between collect_metrics and the end of the cycle
InFlight == {"send", "retry_sleep", "log"}

MaxFetches == 3

\* ------------------------------------------------- program constants
\* self._cache_ttl = 300
cache_ttl == 300

\* seconds the clock may advance by between two steps
TickSteps == {1, 299}

\* records of the issue source: an issue, or a pull request
Item(n, pr) == [number |-> n, pull_request |-> pr]

\* bodies of a 200 answer of the issue source
ResponseLists == {<<>>, <<Item(1, FALSE), Item(2, TRUE)>>, <<Item(2, TRUE), Item(3, FALSE)>>}

\* what one requests.get(...) plus response.json() can do: a 200 answer
\* with a list, another status, or an exception (transport error, timeout,
\* unparsable body)
FetchOutcomes ==
    {[kind |-> "response", status |-> 200, body |-> l] : l \in ResponseLists}
        \cup {[kind |-> "response", status |-> 500, body |-> <<>>],
              [kind |-> "exception", status |-> 0, body |-> <<>>]}

\* `if response.status_code == 200:`; an exception never gets there
FetchSucceeded_AnyResponse(o) == o.kind = "response"

FetchSucceeded(o) == o.kind = "response" /\ o.status = 200

\* `if not self.github_repo`
RepoNotConfigured_Skipped(repo) == FALSE

RepoNotConfigured(repo) == repo = None

\* `datetime.utcnow() - self._cache_time < timedelta(seconds=self._cache_ttl)`
CacheFresh_Inclusive(t, n) == n - t <= cache_ttl

CacheFresh(t, n) == n - t < cache_ttl

\* `if self._issues_cache and self._cache_time:` and the TTL test inside it;
\* None and the empty list are both false
CacheUsable(cache, ctime, n) ==
    /\ cache # <<>>
    /\ cache[1] # <<>>
    /\ ctime # <<>>
    /\ CacheFresh(ctime[1], n)

\* `[issue for issue in issues if 'pull_request' not in issue]`
FilterPullRequests_Keep(l) == l

FilterPullRequests(l) == SelectSeq(l, LAMBDA i : ~i.pull_request)

\* callers between the cache check and the requests.get call
PendingFetches == {c \in FCallers : fpc[c] \in {"check", "request"}}

\* a caller ends its call with return value r
FetchReturns(c, r, how) ==
    /\ fret' = [fret EXCEPT ![c] = r]
    /\ fout' = [fout EXCEPT ![c] = how]
    /\ fpc' = [fpc EXCEPT ![c] = "done"]

\* entry of _fetch_github_issues: the github_repo check
FetchEntry(c) ==
    /\ fpc[c] = "idle"
    /\ fetches + Cardinality(PendingFetches) < MaxFetches
    /\ IF RepoNotConfigured(github_repo)
       THEN FetchReturns(c, <<>>, "unconfigured")
       ELSE /\ fpc' = [fpc EXCEPT ![c] = "check"]
            /\ UNCHANGED <<fret, fout>>
    /\ UNCHANGED <<issues_cache, cache_time, flocal, fetches, freq, stamp>>
    /\ UNCHANGED <<github_repo, swarm_id, now, ticks, snap, monitor_url>>
    /\ UNCHANGED <<calcVars, lifeVars, sendVars, logVars>>

\* the cache check
FetchCheck(c) ==
    /\ fpc[c] = "check"
    /\ fpc' = [fpc EXCEPT ![c] = IF CacheUsable(issues_cache, cache_time, now)
                                 THEN "serve" ELSE "request"]
    /\ UNCHANGED <<issues_cache, cache_time, flocal, fret, fout, fetches, freq, stamp>>
    /\ UNCHANGED <<github_repo, swarm_id, now, ticks, snap, monitor_url>>
    /\ UNCHANGED <<calcVars, lifeVars, sendVars, logVars>>

\* `return self._issues_cache`
FetchServe(c) ==
    /\ fpc[c] = "serve"
    /\ FetchReturns(c, issues_cache[1], "cached")
    /\ UNCHANGED <<issues_cache, cache_time, flocal, fetches, freq, stamp>>
    /\ UNCHANGED <<github_repo, swarm_id, now, ticks, snap, monitor_url>>
    /\ UNCHANGED <<calcVars, lifeVars, sendVars, logVars>>

\* requests.get(...): on a 200 answer the body is parsed and filtered, any
\* other answer or an exception returns []
FetchRequest(c) ==
    /\ fpc[c] = "request"
    /\ fetches < MaxFetches
    /\ fetches' = fetches + 1
    /\ \E o \in FetchOutcomes :
         /\ freq' = [freq EXCEPT ![c] = IF FetchSucceeded(o)
                                        THEN <<[n |-> fetches + 1, ok |-> o.status = 200]>>
                                        ELSE <<>>]
         /\ IF FetchSucceeded(o)
            THEN /\ flocal' = [flocal EXCEPT ![c] = FilterPullRequests(o.body)]
                 /\ fpc' = [fpc EXCEPT ![c] = "write_list"]
                 /\ UNCHANGED <<fret, fout>>
            ELSE /\ FetchReturns(c, <<>>, "failed")
                 /\ flocal' = flocal
    /\ UNCHANGED <<issues_cache, cache_time, stamp>>
    /\ UNCHANGED <<github_repo, swarm_id, now, ticks, snap, monitor_url>>
    /\ UNCHANGED <<calcVars, lifeVars, sendVars, logVars>>

\* self._issues_cache = issues
FetchWriteList(c) ==
    /\ fpc[c] = "write_list"
    /\ issues_cache' = <<flocal[c]>>
    /\ fpc' = [fpc EXCEPT ![c] = "write_time"]
    /\ stamp' = [stamp EXCEPT !.list = freq[c][1].n]
    /\ UNCHANGED <<cache_time, flocal, fret, fout, fetches, freq>>
    /\ UNCHANGED <<github_repo, swarm_id, now, ticks, snap, monitor_url>>
    /\ UNCHANGED <<calcVars, lifeVars, sendVars, logVars>>

\* self._cache_time = datetime.utcnow(); return issues
FetchWriteTime(c) ==
    /\ fpc[c] = "write_time"
    /\ cache_time' = <<now>>
    /\ FetchReturns(c, flocal[c], "fetched")
    /\ stamp' = [stamp EXCEPT !.time = freq[c][1].n]
    /\ freq' = [freq EXCEPT ![c] = <<>>]
    /\ UNCHANGED <<issues_cache, flocal, fetches>>
    /\ UNCHANGED <<github_repo, swarm_id, now, ticks, snap, monitor_url>>
    /\ UNCHANGED <<calcVars, lifeVars, sendVars, logVars>>

\* the caller has taken the return value; its locals are dead
FetchDone(c) ==
    /\ fpc[c] = "done"
    /\ fpc' = [fpc EXCEPT ![c] = "idle"]
    /\ flocal' = [flocal EXCEPT ![c] = <<>>]
    /\ fret' = [fret EXCEPT ![c] = <<>>]
    /\ fout' = [fout EXCEPT ![c] = "none"]
    /\ UNCHANGED <<issues_cache, cache_time, fetches, freq, stamp>>
    /\ UNCHANGED <<github_repo, swarm_id, now, ticks, snap, monitor_url>>
    /\ UNCHANGED <<calcVars, lifeVars, sendVars, logVars>>

\* the wall clock advances
Tick ==
    /\ ticks < MaxTicks
    /\ ticks' = ticks + 1
    /\ \E d \in TickSteps : now' = now + d
    /\ UNCHANGED <<github_repo, swarm_id, snap, monitor_url, trackerVars>>
    /\ UNCHANGED <<calcVars, lifeVars, sendVars, logVars>>

\* ------------------------------------------------------ collect_metrics
\* sub-collectors that read the operating system and can fail
Failable == {"system", "resources"}

\* _collect_system_metrics when it works
SystemInfo == [hostname |-> "host", platform |-> "linux", python_version |-> "3"]

\* _collect_agent_metrics
AgentInfo == [active_agents |-> 0, total_agents |-> 0, agents_status |-> <<>>]

\* _collect_resource_metrics when it works
ResourceInfo == [cpu_percent |-> 10, memory_percent |-> 20, disk_percent |-> 30]

\* the dict {}
EmptyDict == [x \in {} |-> x]

\* _collect_github_metrics
collect_github_metrics(repo) ==
    IF repo = None
    THEN [enabled |-> FALSE]
    ELSE [enabled |-> TRUE, repository |-> repo, open_issues |-> 0,
          open_prs |-> 0, recent_commits |-> 0]

\* _collect_resource_metrics: its own handler turns a failure into {}
collect_resource_metrics(failed) ==
    IF "resources" \in failed THEN EmptyDict ELSE ResourceInfo

\* _collect_project_metrics
collect_project_metrics ==
    [completion_percentage |-> 0, total_issues |-> 0, completed_issues |-> 0,
     blocked_issues |-> 0, issues_requiring_intervention |-> <<>>]

\* collect_metrics() while the sub-collectors in `failed` fail: the dict is
\* built entry by entry with no handler, so a failure of
\* _collect_system_metrics leaves collect_metrics as an exception
collect_metrics(failed) ==
    IF "system" \in failed
    THEN [failed |-> failed, raised |-> TRUE, metrics |-> EmptyDict]
    ELSE [failed |-> failed, raised |-> FALSE,
          metrics |-> [swarm_id |-> swarm_id,
                       timestamp |-> now,
                       system |-> SystemInfo,
                       agents |-> AgentInfo,
                       github |-> collect_github_metrics(github_repo),
                       resources |-> collect_resource_metrics(failed),
                       project |-> collect_project_metrics]]

\* a call of collect_metrics()
Collect ==
    /\ \E failed \in SUBSET Failable : snap' = <<collect_metrics(failed)>>
    /\ UNCHANGED <<github_repo, swarm_id, now, ticks, monitor_url, trackerVars>>
    /\ UNCHANGED <<calcVars, lifeVars, sendVars, logVars>>

\* an api server process: the agent and its ProjectTracker, both configured
\* from one settings.ini
CacheInit ==
    /\ github_repo \in GithubRepos
    /\ swarm_id = DefaultSwarm
    /\ now = Epoch
    /\ ticks = 0
    /\ snap = <<>>
    /\ TrackerInit
    /\ CalcIdle
    /\ LogInit
    /\ monitor_url = None
    /\ LifeInit
    /\ SendIdle

CacheNext ==
    \/ \E c \in FCallers : FetchEntry(c)
    \/ \E c \in FCallers : FetchCheck(c)
    \/ \E c \in FCallers : FetchServe(c)
    \/ \E c \in FCallers : FetchRequest(c)
    \/ \E c \in FCallers : FetchWriteList(c)
    \/ \E c \in FCallers : FetchWriteTime(c)
    \/ \E c \in FCallers : FetchDone(c)
    \/ Tick
    \/ Collect

SpecCache == CacheInit /\ [][CacheNext]_vars

\* ------------------------------------- properties of the ProjectTracker
\* callers between a missed cache check and the end of the replacement
Refetching == {c \in FCallers : fpc[c] \in {"request", "write_list", "write_time"}}

\* the cache entry holds a list captured less than TTL seconds ago
EntryWithinTtl ==
    /\ issues_cache # <<>>
    /\ cache_time # <<>>
    /\ now - cache_time[1] < cache_ttl

\* C12: check TTL / refetch / replace is one critical section: at most one
\* caller at a time is between a missed cache check and the replacement.
C12_SingleFlight == Cardinality(Refetching) <= 1

\* C13: a call that finds an entry captured less than TTL seconds ago makes
\* no external fetch and returns the cached list, whatever that list is.
C13_WithinTtlNoSecondFetch ==
    [][\A c \in FCallers :
        /\ (fpc[c] = "check" /\ fpc'[c] # "check" /\ EntryWithinTtl)
              => fpc'[c] = "serve"
        /\ (fpc[c] = "serve" /\ fpc'[c] # "serve")
              => (fret'[c] = issues_cache[1] /\ fetches' = fetches)
      ]_vars

\* C14: a call is served from the cache only while now - capture time < 300;
\* a call that finds the entry 300 seconds old or older goes to the issue
\* source, and a successful fetch writes the list and then the capture time.
C14_ServedOnlyWhileFresh ==
    [][\A c \in FCallers :
        /\ (fpc[c] = "check" /\ fpc'[c] = "serve")
              => (cache_time # <<>> /\ now - cache_time[1] < 300)
        /\ (fpc[c] = "check" /\ fpc'[c] # "check"
              /\ (cache_time = <<>> \/ now - cache_time[1] >= 300))
              => fpc'[c] = "request"
        /\ (fpc[c] = "request" /\ fpc'[c] # "request")
              => fetches' = fetches + 1
        /\ (fpc[c] = "write_list" /\ fpc'[c] # "write_list")
              => (issues_cache' = <<flocal[c]>> /\ fpc'[c] = "write_time")
        /\ (fpc[c] = "write_time" /\ fpc'[c] # "write_time")
              => (cache_time' = <<now>> /\ issues_cache' = issues_cache)
      ]_vars

\* a caller found a non-empty entry exactly 300 seconds old and is about to
\* fetch
C14_Witness ==
    \E c \in FCallers :
        /\ fpc[c] = "request"
        /\ issues_cache # <<>>
        /\ issues_cache[1] # <<>>
        /\ cache_time # <<>>
        /\ now - cache_time[1] = 300

\* C15: a call whose fetch fails returns the cache content if the entry is
\* still within the TTL, and the empty list otherwise.
C15_FailedFetchFallsBack ==
    [][\A c \in FCallers :
        (fpc[c] = "request" /\ fpc'[c] = "done")
            => fret'[c] = IF EntryWithinTtl THEN issues_cache[1] ELSE <<>>
      ]_vars

\* C16: collect_metrics never raises; the section of a failing sub-collector
\* is {} and every other section is filled.
C16_CollectNeverFails ==
    snap # <<>> =>
        /\ ~snap[1].raised
        /\ snap[1].metrics.system =
              (IF "system" \in snap[1].failed THEN EmptyDict ELSE SystemInfo)
        /\ snap[1].metrics.resources =
              (IF "resources" \in snap[1].failed THEN EmptyDict ELSE ResourceInfo)
        /\ snap[1].metrics.agents = AgentInfo
        /\ snap[1].metrics.swarm_id = swarm_id

\* C20: with no repository configured the issue-tracker section of a
\* snapshot is {enabled: false}, its project fields are zero or empty, and
\* no call into the ProjectTracker reaches the issue source.
C20_NoRepoNoNetwork ==
    github_repo = None =>
        /\ fetches = 0
        /\ \A c \in FCallers :
              /\ fpc[c] \in {"idle", "done"}
              /\ fpc[c] = "done" => fret[c] = <<>>
        /\ (snap # <<>> /\ ~snap[1].raised) =>
              /\ snap[1].metrics.github = [enabled |-> FALSE]
              /\ snap[1].metrics.project.completion_percentage = 0
              /\ snap[1].metrics.project.total_issues = 0
              /\ snap[1].metrics.project.completed_issues = 0
              /\ snap[1].metrics.project.blocked_issues = 0
              /\ snap[1].metrics.project.issues_requiring_intervention = <<>>

\* no repository: a snapshot was collected and a tracker call has returned
C20_Witness ==
    /\ github_repo = None
    /\ snap # <<>>
    /\ ~snap[1].raised
    /\ \E c \in FCallers : fpc[c] = "done"

\* ================================================ _log_metrics_locally
\* ------------------------------------------------------------ bounds
\* number of _log_metrics_locally calls in one behaviour
MaxAppends == 2

\* ------------------------------------------------------------ domains
\* characters: a letter, the letter n, newline, double quote, backslash
NL == "NL"
DQ == "DQ"
BS == "BS"

\* swarm identifiers a settings.ini can carry
SwarmIds == {<<"a">>, <<"a", NL>>, <<DQ, "a">>, <<BS, "n">>}

\* local-time offsets of the host, in hours
TzOffsets == {-5, 0, 9}

\* seconds the clock may advance by between two cycles
LogTickSteps == {6 * Hour, LongTick}

\* what the file system can do to one call
AppendOutcomes == {"ok", "mkdir_error", "open_error", "write_error"}

\* ----------------------------------------------------------- json.dump
\* a JSON string escapes newline, double quote and backslash
EscapeChar(ch) ==
    IF ch = NL THEN <<BS, "n">>
    ELSE IF ch = DQ THEN <<BS, DQ>>
    ELSE IF ch = BS THEN <<BS, BS>>
    ELSE <<ch>>

RECURSIVE Escape(_)
Escape(str) ==
    IF str = <<>> THEN <<>> ELSE EscapeChar(Head(str)) \o Escape(Tail(str))

\* datetime.isoformat(): the instant written out in decimal digits
RECURSIVE isoformat(_)
isoformat(t) ==
    IF t < 10 THEN <<ToString(t)>> ELSE isoformat(t \div 10) \o <<ToString(t % 10)>>

\* json.dump(metrics, f): the object on one line, swarm_id first
json_dump(m) ==
    <<"{", DQ>> \o Escape(m.swarm_id) \o <<DQ, ",">> \o isoformat(m.timestamp) \o <<"}">>

\* datetime.now().date() as a day number: the date of the host's clock
LocalDate(t, offset) == (t + offset * Hour) \div Day

\* f"heartbeat_{datetime.now().strftime('%Y%m%d')}.json"
LogFileDate(t, offset) == LocalDate(t, offset)

\* open(log_file, 'a') followed by writes: the data goes after the content
WriteFile_Truncate(old, data) == data

WriteFile(old, data) == old \o data

\* how a failure inside _log_metrics_locally leaves the function:
\* `except Exception` logs it and the function returns
AppendOnError_Raise == "raised"

AppendOnError == "returned"

\* self._log_metrics_locally(metrics) with the metrics of the last
\* collect_metrics call
log_metrics_locally ==
    /\ appends < MaxAppends
    /\ snap # <<>>
    /\ ~snap[1].raised
    /\ appends' = appends + 1
    /\ LET d == LogFileDate(now, tz)
           line == json_dump(snap[1].metrics)
       IN \E o \in AppendOutcomes :
            CASE o = "ok" ->
                   /\ files' = [files EXCEPT ![d] = WriteFile(files[d], line \o <<NL>>)]
                   /\ aret' = "returned"
                   /\ aout' = "none"
              [] o = "write_error" ->
                   \* the failure comes before anything is written, or between
                   \* json.dump and f.write('\n')
                   /\ \E partial \in {<<>>, line} :
                        files' = [files EXCEPT ![d] = WriteFile(files[d], partial)]
                   /\ aret' = AppendOnError
                   /\ aout' = o
              [] OTHER ->
                   /\ files' = files
                   /\ aret' = AppendOnError
                   /\ aout' = o
    /\ UNCHANGED <<github_repo, swarm_id, now, ticks, snap, tz, monitor_url, trackerVars>>
    /\ UNCHANGED <<calcVars, lifeVars, sendVars>>

\* time passes between two cycles
LogTick ==
    /\ ticks < MaxTicks
    /\ ticks' = ticks + 1
    /\ \E d \in LogTickSteps : now' = now + d
    /\ UNCHANGED <<github_repo, swarm_id, snap, monitor_url, trackerVars, logVars>>
    /\ UNCHANGED <<calcVars, lifeVars, sendVars>>

\* an agent on a host in some time zone, with no repository configured
LogSpecInit ==
    /\ swarm_id \in SwarmIds
    /\ tz \in TzOffsets
    /\ files = [d \in Days |-> <<>>]
    /\ appends = 0
    /\ aret = "none"
    /\ aout = "none"
    /\ github_repo = None
    /\ now = Epoch
    /\ ticks = 0
    /\ snap = <<>>
    /\ TrackerInit
    /\ CalcIdle
    /\ monitor_url = None
    /\ LifeInit
    /\ SendIdle

LogNext == Collect \/ log_metrics_locally \/ LogTick

SpecLog == LogSpecInit /\ [][LogNext]_vars

\* ------------------------------------------------------ reading a file
\* `for line in f`: the pieces between newlines; text after the last
\* newline is a line of its own
RECURSIVE SplitLines(_, _)
SplitLines(f, cur) ==
    IF f = <<>> THEN (IF cur = <<>> THEN <<>> ELSE <<cur>>)
    ELSE IF Head(f) = NL THEN <<cur>> \o SplitLines(Tail(f), <<>>)
    ELSE SplitLines(Tail(f), Append(cur, Head(f)))

\* what a line that is no JSON object of a snapshot reads as
BadRecord == [ok |-> FALSE, swarm_id |-> <<>>, timestamp |-> 0]

Record(id, t) == [ok |-> TRUE, swarm_id |-> id, timestamp |-> t]

\* the character an escape sequence stands for
UnescapeChar(ch) == IF ch = "n" THEN NL ELSE ch

\* a JSON string from position i to its closing quote
RECURSIVE ReadString(_, _, _)
ReadString(str, i, acc) ==
    IF i > Len(str) THEN [ok |-> FALSE, val |-> acc, next |-> i]
    ELSE IF str[i] = DQ THEN [ok |-> TRUE, val |-> acc, next |-> i + 1]
    ELSE IF str[i] = BS
         THEN IF i + 1 > Len(str)
              THEN [ok |-> FALSE, val |-> acc, next |-> i]
              ELSE ReadString(str, i + 2, Append(acc, UnescapeChar(str[i + 1])))
    ELSE ReadString(str, i + 1, Append(acc, str[i]))

DigitChars == {ToString(k) : k \in 0..9}

DigitValue(ch) == CHOOSE k \in 0..9 : ToString(k) = ch

\* datetime.fromisoformat: the instant a run of digits stands for
RECURSIVE fromisoformat(_)
fromisoformat(ds) ==
    IF ds = <<>> THEN 0
    ELSE 10 * fromisoformat(SubSeq(ds, 1, Len(ds) - 1)) + DigitValue(ds[Len(ds)])

\* json.loads(line) of one line of a log file
json_loads(line) ==
    IF Len(line) < 2 \/ line[1] # "{" \/ line[2] # DQ THEN BadRecord
    ELSE LET r == ReadString(line, 3, <<>>)
             ds == SubSeq(line, r.next + 1, Len(line) - 1)
         IN IF \/ ~r.ok
               \/ r.next >= Len(line)
               \/ line[r.next] # ","
               \/ line[Len(line)] # "}"
               \/ ds = <<>>
               \/ \E i \in 1..Len(ds) : ds[i] \notin DigitChars
            THEN BadRecord
            ELSE Record(r.val, fromisoformat(ds))

\* [json.loads(line) for line in f]
ReadRecords(f) ==
    LET lines == SplitLines(f, <<>>)
    IN [i \in 1..Len(lines) |-> json_loads(lines[i])]

\* ------------------------------------------------------------- claims
\* C17: _log_metrics_locally never raises: a failure to create the
\* directory, open the file or write is swallowed and the call returns;
\* the snapshot and the result of delivery stay as they were.
C17_AppendNeverRaises ==
    /\ [](aret # "raised")
    /\ [](aout \in {"mkdir_error", "open_error", "write_error"} => aret = "returned")
    /\ [][appends' # appends =>
            /\ snap' = snap
            /\ sResult' = sResult
            /\ success' = success
            /\ aret' = "returned"
         ]_vars

\* each kind of failure was met and the call returned
C17_Witness ==
    /\ appends > 0
    /\ aret = "returned"
    /\ aout = "open_error"

\* C18: a snapshot goes to the file that carries the UTC date of the append.
C18_FileDateIsUtcDate ==
    [][appends' # appends =>
            \A d \in Days : files'[d] # files[d] => d = now \div 86400
      ]_vars

\* the file ends where a record ends
Untorn(f) == f = <<>> \/ f[Len(f)] = NL

\* C19: a successful append adds one record at the end of one file: read
\* line by line, the file yields the records it held before followed by the
\* swarm identifier and timestamp of the snapshot appended.
C19_AppendThenReadBack ==
    [][(appends' # appends /\ aout' = "none") =>
            \E d \in Days :
                /\ files'[d] # files[d]
                /\ \A e \in Days \ {d} : files'[e] = files[e]
                /\ Untorn(files[d]) =>
                      ReadRecords(files'[d]) =
                          Append(ReadRecords(files[d]),
                                 Record(swarm_id, snap[1].metrics.timestamp))
      ]_vars

\* one file holds two records with a swarm identifier that needs escaping,
\* taken at different instants
C19_Witness ==
    \E d \in Days :
        LET rs == ReadRecords(files[d])
        IN /\ Len(rs) = 2
           /\ rs[1].ok /\ rs[2].ok
           /\ rs[1].swarm_id = <<DQ, "a">>
           /\ rs[1].timestamp < rs[2].timestamp

\* ===================================== one cycle: collect, send, append
\* requests.post(json=metrics) serialises the dict it is given and leaves
\* it as it was
MetricsAfterPost_Stamped(m) == [m EXCEPT !.timestamp = @ + 1]

MetricsAfterPost(m) == m

\* metrics = agent.collect_metrics()
CycleCollect ==
    /\ sPc = "idle"
    /\ snap = <<>>
    /\ Collect

\* agent.send_heartbeat(metrics): entry
CycleSendEntry ==
    /\ snap # <<>>
    /\ ~snap[1].raised
    /\ SendEntry

\* one iteration of the retry loop, posting the dict `metrics` refers to
CyclePost ==
    /\ sPc = "post"
    /\ \E o \in Outcomes :
         /\ sLog' = Append(sLog, [o EXCEPT !.body = snap[1].metrics])
         /\ LET a == AfterAttempt(o, sAttempt) IN
            CASE a = "return_true" ->
                   /\ sResult' = "True"
                   /\ sPc' = "returned"
                   /\ sAttempt' = sAttempt
              [] a = "break" ->
                   /\ sResult' = "False"
                   /\ sPc' = "returned"
                   /\ sAttempt' = sAttempt
              [] a = "sleep" ->
                   /\ sResult' = sResult
                   /\ sPc' = "sleep"
                   /\ sAttempt' = sAttempt
              [] OTHER ->
                   IF sAttempt + 1 < max_retries
                   THEN /\ sResult' = sResult
                        /\ sPc' = "post"
                        /\ sAttempt' = sAttempt + 1
                   ELSE /\ sResult' = "False"
                        /\ sPc' = "returned"
                        /\ sAttempt' = sAttempt
    /\ snap' = <<[snap[1] EXCEPT !.metrics = MetricsAfterPost(@)]>>
    /\ UNCHANGED <<sMetrics, monitor_url, github_repo, swarm_id, now, ticks>>
    /\ UNCHANGED <<calcVars, lifeVars, trackerVars, logVars>>

\* agent._log_metrics_locally(metrics), after send_heartbeat has returned
CycleLog ==
    /\ sPc = "returned"
    /\ appends = 0
    /\ log_metrics_locally

\* main(--once): one agent, one cycle
CycleInit ==
    /\ monitor_url \in MonitorUrls
    /\ swarm_id \in SwarmIds
    /\ sPc = "idle"
    /\ sMetrics = "m1"
    /\ sAttempt = 0
    /\ sLog = <<>>
    /\ sResult = "unset"
    /\ LogInit
    /\ github_repo = None
    /\ now = Epoch
    /\ ticks = 0
    /\ snap = <<>>
    /\ TrackerInit
    /\ CalcIdle
    /\ LifeInit

CycleNext ==
    \/ CycleCollect
    \/ CycleSendEntry
    \/ CyclePost
    \/ SendSleep
    \/ CycleLog
    \/ LogTick

SpecCycle == CycleInit /\ [][CycleNext]_vars

\* C21: send_heartbeat and _log_metrics_locally leave the snapshot as
\* collect_metrics returned it: every attempt posts that snapshot and the
\* record appended is that snapshot.
C21_SnapshotReadOnly ==
    /\ [][snap # <<>> => snap' = snap]_vars
    /\ [](snap # <<>> =>
            \A i \in 1..Len(sLog) :
                sLog[i].kind # "sleep" => sLog[i].body = snap[1].metrics)
    /\ []((appends = 1 /\ aout = "none") =>
            \E d \in Days :
                ReadRecords(files[d]) =
                    <<Record(snap[1].metrics.swarm_id, snap[1].metrics.timestamp)>>)

\* three attempts were posted, the record was appended, and the clock has
\* moved on since the snapshot was collected
C21_Witness ==
    /\ Len(sLog) >= 3
    /\ sLog[1].kind # "sleep" /\ sLog[2].kind # "sleep" /\ sLog[3].kind # "sleep"
    /\ appends = 1
    /\ aout = "none"
    /\ snap[1].metrics.timestamp < now

\* C22: no record the source marks as a pull request is stored in the cache,
\* held by a caller after the filter, or returned.
C22_NoPullRequestKept ==
    /\ issues_cache # <<>> =>
          \A i \in 1..Len(issues_cache[1]) : ~issues_cache[1][i].pull_request
    /\ \A c \in FCallers :
          /\ \A i \in 1..Len(fret[c]) : ~fret[c][i].pull_request
          /\ \A i \in 1..Len(flocal[c]) : ~flocal[c][i].pull_request

\* three answers that held a pull request were fetched; the cache and a
\* returned list hold the issue of the last one
C22_Witness ==
    /\ fetches = 3
    /\ issues_cache = <<(<<Item(3, FALSE)>>)>>
    /\ \E c \in FCallers : fpc[c] = "done" /\ fret[c] = <<Item(3, FALSE)>>

\* ================================== calculations of the ProjectTracker
\* ------------------------------------------------------------ bounds
\* length of an issue list built from the sample issues
MaxIssues == 3

\* issues closed on one day of the velocity window
MaxPerDay == 2

\* ------------------------------------------------------------ domains
\* the clock while the calculations run: noon of day 10
CalcNow == 10 * Day + 12 * Hour

\* an issue as the issue source describes it; `age` is how long before
\* CalcNow it was last updated, `closed` is <<>> or <<how long before
\* CalcNow it was closed>>; `bad` names the fields of the record that are
\* missing or hold a string that is no timestamp
Issue(st, labels, comments, age, closed) ==
    [number |-> 0,
     state |-> st,
     labels |-> labels,
     comments |-> comments,
     updated_at |-> CalcNow - age,
     closed_at |-> IF closed = <<>> THEN <<>> ELSE <<CalcNow - closed[1]>>,
     bad |-> {}]

SampleIssues ==
    { Issue("open", {}, 0, Hour, <<>>),
      Issue("open", {"WIP"}, 6, Hour, <<>>),
      Issue("open", {"Blocked"}, 0, 24 * Hour, <<>>),
      Issue("open", {"blocked"}, 0, 24 * Hour + 1, <<>>),
      Issue("open", {"on-hold", "bug"}, 7, 48 * Hour + 1799, <<>>),
      Issue("open", {"waiting", "Urgent"}, 0, 48 * Hour, <<>>),
      Issue("open", {"in-progress", "blocked"}, 0, Hour, <<>>),
      Issue("open", {"p1"}, 7, Hour, <<>>),
      Issue("open", {"Blocked", "critical"}, 9, 72 * Hour, <<>>),
      Issue("open", {"bug"}, 7, Hour, <<>>),
      Issue("closed", {"blocked", "critical"}, 9, 72 * Hour, <<Day>>),
      Issue("closed", {}, 0, Hour, <<>>),
      Issue("closed", {}, 0, Hour, <<7 * Day>>),
      Issue("closed", {}, 0, Hour, <<0 - Hour>>) }

\* the issues of a list carry their position as number
Numbered(l) == [i \in 1..Len(l) |-> [l[i] EXCEPT !.number = i]]

SampleLists ==
    {Numbered(l) : l \in UNION {[1..n -> SampleIssues] : n \in 0..MaxIssues}}

\* str.lower() on a label name
Lower(name) ==
    CASE name = "WIP" -> "wip"
      [] name = "Blocked" -> "blocked"
      [] name = "Urgent" -> "urgent"
      [] OTHER -> name

in_progress_labels == {"in progress", "in-progress", "wip"}

blocked_labels == {"blocked", "waiting", "on-hold"}

\* any(label['name'].lower() in names for label in issue.get('labels', []))
HasLabel(issue, names) == \E l \in issue.labels : Lower(l) \in names

\* round(num / den, 2), as a number of hundredths; a tie goes to the even
\* neighbour
Round2(num, den) ==
    LET q == (num * 100) \div den
        r == (num * 100) % den
    IN IF 2 * r > den THEN q + 1
       ELSE IF 2 * r = den /\ q % 2 = 1 THEN q + 1
       ELSE q

\* (completed_issues / total_issues * 100) if total_issues > 0 else 0,
\* rounded to two places; in hundredths of a percent
CompletionPercentage_OfOpen(total, completed) ==
    IF total > 0 THEN Round2((total - completed) * 100, total) ELSE 0

CompletionPercentage(total, completed) ==
    IF total > 0 THEN Round2(completed * 100, total) ELSE 0

\* ready = open_issues - in_progress - blocked
ReadyCount_ForgetsBlocked(open, in_progress, blocked) == open - in_progress

ReadyCount(open, in_progress, blocked) == open - in_progress - blocked

calculate_issue_metrics(l) ==
    LET total_issues == Len(l)
        completed_issues == Len(SelectSeq(l, LAMBDA i : i.state = "closed"))
        open_issues == Len(SelectSeq(l, LAMBDA i : i.state = "open"))
        in_progress == Len(SelectSeq(l, LAMBDA i : i.state = "open" /\ HasLabel(i, in_progress_labels)))
        blocked == Len(SelectSeq(l, LAMBDA i : i.state = "open" /\ HasLabel(i, blocked_labels)))
    IN [total_issues |-> total_issues,
        completed_issues |-> completed_issues,
        in_progress_issues |-> in_progress,
        ready_issues |-> ReadyCount(open_issues, in_progress, blocked),
        blocked_issues |-> blocked,
        completion_percentage |-> CompletionPercentage(total_issues, completed_issues)]

\* a call of _calculate_issue_metrics(issues)
CalcIssueMetrics ==
    /\ calc' = [fn |-> "issue_metrics", out |-> calculate_issue_metrics(issues)]
    /\ UNCHANGED <<issues, flag_cfg, api, monitor_url>>
    /\ UNCHANGED <<github_repo, swarm_id, now, ticks, snap, trackerVars, logVars>>
    /\ UNCHANGED <<lifeVars, sendVars>>

\* --------------------------------------------------- _calculate_velocity
\* the default of the parameter `days`
VelocityDays == 7

RECURSIVE Repeat(_, _)
Repeat(x, n) == IF n = 0 THEN <<>> ELSE <<x>> \o Repeat(x, n - 1)

\* a list of closed issues, profile[d] of them closed exactly d days ago
RECURSIVE ProfileFrom(_, _)
ProfileFrom(profile, d) ==
    IF d >= VelocityDays THEN <<>>
    ELSE Repeat(Issue("closed", {}, 0, Hour, <<d * Day>>), profile[d])
            \o ProfileFrom(profile, d + 1)

ProfileLists ==
    {Numbered(ProfileFrom(pr, 0)) : pr \in [0..(VelocityDays - 1) -> 0..MaxPerDay]}

RECURSIVE Sum(_)
Sum(seq) == IF seq = <<>> THEN 0 ELSE Head(seq) + Sum(Tail(seq))

\* daily_counts[days - 1 - day_index], as a position counted from 1
WindowSlot_NewestFirst(days, day_index) == day_index + 1

WindowSlot(days, day_index) == (days - 1 - day_index) + 1

\* the loop over recent_closed that fills daily_counts
RECURSIVE CountDays(_, _, _)
CountDays(counts, recent, days) ==
    IF recent = <<>> THEN counts
    ELSE LET day_index == (now - Head(recent)) \div Day
         IN CountDays(IF 0 <= day_index /\ day_index < days
                      THEN [counts EXCEPT ![WindowSlot(days, day_index)] = @ + 1]
                      ELSE counts,
                      Tail(recent), days)

\* second_half > first_half * 1.2, second_half < first_half * 0.8; for
\* sums up to 200 the floating-point products compare as the exact ones do
Trend_Inclusive(daily_counts) ==
    IF Len(daily_counts) >= 3
    THEN LET h == Len(daily_counts) \div 2
             first_half == Sum(SubSeq(daily_counts, 1, h))
             second_half == Sum(SubSeq(daily_counts, h + 1, Len(daily_counts)))
         IN IF 5 * second_half >= 6 * first_half THEN "increasing"
            ELSE IF 5 * second_half <= 4 * first_half THEN "decreasing"
            ELSE "stable"
    ELSE "stable"

Trend(daily_counts) ==
    IF Len(daily_counts) >= 3
    THEN LET h == Len(daily_counts) \div 2
             first_half == Sum(SubSeq(daily_counts, 1, h))
             second_half == Sum(SubSeq(daily_counts, h + 1, Len(daily_counts)))
         IN IF 5 * second_half > 6 * first_half THEN "increasing"
            ELSE IF 5 * second_half < 4 * first_half THEN "decreasing"
            ELSE "stable"
    ELSE "stable"

\* datetime.strptime(issue[field], '%Y-%m-%dT%H:%M:%SZ') returns a value
Parses(issue, field) == field \notin issue.bad

\* a closed_at that does not parse is skipped by `except (ValueError,
\* KeyError): continue`
calculate_velocity(l, days) ==
    LET cutoff_date == now - days * Day
        closed_issues == SelectSeq(l, LAMBDA i : i.state = "closed" /\ i.closed_at # <<>>)
        in_window == SelectSeq(closed_issues,
                               LAMBDA i : Parses(i, "closed_at")
                                          /\ i.closed_at[1] >= cutoff_date)
        recent_closed == [k \in 1..Len(in_window) |-> in_window[k].closed_at[1]]
        daily_counts == CountDays([k \in 1..days |-> 0], recent_closed, days)
    IN [issues_per_day |-> IF days > 0 THEN Round2(Len(recent_closed), days) ELSE 0,
        last_7_days |-> daily_counts,
        trend |-> Trend(daily_counts),
        total_closed_in_period |-> Len(recent_closed)]

\* a call of _calculate_velocity(issues)
CalcVelocity ==
    /\ calc' = [fn |-> "velocity", out |-> calculate_velocity(issues, VelocityDays)]
    /\ UNCHANGED <<issues, flag_cfg, api, monitor_url>>
    /\ UNCHANGED <<github_repo, swarm_id, now, ticks, snap, trackerVars, logVars>>
    /\ UNCHANGED <<lifeVars, sendVars>>

\* --------------------------------------------------- _calculate_forecast
\* remaining_issues = metrics['total_issues'] - metrics['completed_issues']
RemainingIssues_Total(metrics) == metrics.total_issues

RemainingIssues(metrics) == metrics.total_issues - metrics.completed_issues

\* confidence by trend, in hundredths
TrendConfidence_Swapped(trend) ==
    IF trend = "increasing" THEN 75
    ELSE IF trend = "stable" THEN 85
    ELSE 50

TrendConfidence(trend) ==
    IF trend = "increasing" THEN 85
    ELSE IF trend = "stable" THEN 75
    ELSE 50

\* 'High' if confidence > 0.80 else 'Medium' if confidence > 0.60 else 'Low'
ConfidenceLabel(confidence) ==
    IF confidence > 80 THEN "High"
    ELSE IF confidence > 60 THEN "Medium"
    ELSE "Low"

\* issues_per_day is in hundredths; the estimated date is the day number of
\* now + timedelta(days=remaining_issues / issues_per_day)
calculate_forecast(metrics, velocity) ==
    LET remaining_issues == RemainingIssues(metrics)
        issues_per_day == velocity.issues_per_day
    IN IF issues_per_day <= 0
       THEN [estimated_completion_date |-> <<>>,
             days_remaining |-> <<>>,
             confidence_level |-> 0,
             confidence_label |-> "Unknown"]
       ELSE LET confidence == TrendConfidence(velocity.trend)
            IN [estimated_completion_date |->
                    <<(now + (remaining_issues * 100 * Day) \div issues_per_day) \div Day>>,
                days_remaining |-> <<(remaining_issues * 100) \div issues_per_day>>,
                confidence_level |-> confidence,
                confidence_label |-> ConfidenceLabel(confidence)]

\* get_completion_metrics: metrics, velocity and forecast of one issue list
CalcForecast ==
    /\ LET metrics == calculate_issue_metrics(issues)
           velocity == calculate_velocity(issues, VelocityDays)
       IN calc' = [fn |-> "forecast",
                   out |-> [metrics |-> metrics,
                            velocity |-> velocity,
                            forecast |-> calculate_forecast(metrics, velocity)]]
    /\ UNCHANGED <<issues, flag_cfg, api, monitor_url>>
    /\ UNCHANGED <<github_repo, swarm_id, now, ticks, snap, trackerVars, logVars>>
    /\ UNCHANGED <<lifeVars, sendVars>>

\* ---------------------------------------- _flag_issues_for_intervention
urgent_labels == {"critical", "urgent", "p0", "p1"}

\* thresholds a settings.ini can set
FlagCfgs == {DefaultFlagCfg, [blocked_hours |-> 48, failures_threshold |-> 3]}

\* `if issue.get('state') != 'open': continue`
IsCandidate_AnyState(issue) == TRUE

IsCandidate(issue) == issue.state = "open"

\* hours_blocked > self.flag_blocked_hours, with
\* hours_blocked = (now - updated_at).total_seconds() / 3600
BlockedTooLong_Inclusive(issue, cfg) == now - issue.updated_at >= cfg.blocked_hours * Hour

BlockedTooLong(issue, cfg) == now - issue.updated_at > cfg.blocked_hours * Hour

Reason(rule, n) == [rule |-> rule, n |-> n]

\* priority = 'medium' if priority == 'low' else priority
CommentPriority_Overwrites(priority) == "medium"

CommentPriority(priority) == IF priority = "low" THEN "medium" ELSE priority

\* the body of the loop for one open issue: its reasons, in the order the
\* rules are tried, and its priority
FlagOf(issue, cfg) ==
    LET labels == {Lower(l) : l \in issue.labels}
        blocked_rule == labels \cap blocked_labels # {} /\ BlockedTooLong(issue, cfg)
        comment_rule == issue.comments > cfg.failures_threshold * 2
        urgent_rule == labels \cap urgent_labels # {}
        p1 == IF blocked_rule THEN "high" ELSE "low"
        p2 == IF comment_rule THEN CommentPriority(p1) ELSE p1
        p3 == IF urgent_rule THEN "critical" ELSE p2
    IN [flag_reasons |->
            (IF blocked_rule
             THEN <<Reason("Blocked for hours", (now - issue.updated_at) \div Hour)>>
             ELSE <<>>)
            \o (IF comment_rule THEN <<Reason("High comment count", issue.comments)>> ELSE <<>>)
            \o (IF urgent_rule THEN <<Reason("High priority issue", 0)>> ELSE <<>>),
        priority |-> p3,
        status |-> IF "blocked" \in labels THEN "blocked" ELSE "open"]

flag_issues_for_intervention(l, cfg) ==
    LET candidates == SelectSeq(l, IsCandidate)
        hits == SelectSeq(candidates, LAMBDA i : FlagOf(i, cfg).flag_reasons # <<>>)
    IN [k \in 1..Len(hits) |->
           [number |-> hits[k].number,
            status |-> FlagOf(hits[k], cfg).status,
            priority |-> FlagOf(hits[k], cfg).priority,
            flagged_for_intervention |-> TRUE,
            flag_priority |-> FlagOf(hits[k], cfg).priority,
            flag_reason |-> FlagOf(hits[k], cfg).flag_reasons,
            updated_at |-> hits[k].updated_at]]

\* a call of _flag_issues_for_intervention(issues)
CalcFlags ==
    /\ calc' = [fn |-> "flags", out |-> flag_issues_for_intervention(issues, flag_cfg)]
    /\ UNCHANGED <<issues, flag_cfg, api, monitor_url>>
    /\ UNCHANGED <<github_repo, swarm_id, now, ticks, snap, trackerVars, logVars>>
    /\ UNCHANGED <<lifeVars, sendVars>>

\* the loop body raises: the strptime of updated_at is not guarded, and
\* neither is issue['html_url'] of an issue that has a reason
FlagRaises(issue, cfg) ==
    /\ IsCandidate(issue)
    /\ \/ /\ {Lower(l) : l \in issue.labels} \cap blocked_labels # {}
          /\ ~Parses(issue, "updated_at")
       \/ /\ FlagOf(issue, cfg).flag_reasons # <<>>
          /\ "html_url" \in issue.bad

\* a ProjectTracker holding some issue list, at CalcNow
CalcInit ==
    /\ issues \in SampleLists \cup ProfileLists
    /\ flag_cfg \in FlagCfgs
    /\ calc = NoCalc
    /\ api = NoResponses
    /\ now = CalcNow
    /\ ticks = 0
    /\ github_repo = Repo
    /\ swarm_id = DefaultSwarm
    /\ snap = <<>>
    /\ issues_cache = <<>>
    /\ cache_time = <<>>
    /\ fpc = [c \in FCallers |-> "idle"]
    /\ flocal = [c \in FCallers |-> <<>>]
    /\ fret = [c \in FCallers |-> <<>>]
    /\ fout = [c \in FCallers |-> "none"]
    /\ fetches = 0
    /\ freq = [c \in FCallers |-> <<>>]
    /\ stamp = [list |-> 0, time |-> 0]
    /\ LogInit
    /\ monitor_url = None
    /\ LifeInit
    /\ SendIdle

CalcNext == CalcIssueMetrics \/ CalcVelocity \/ CalcForecast \/ CalcFlags

SpecCalc == CalcInit /\ [][CalcNext]_vars

\* ============================================================
\* ProjectTracker.get_completion_metrics and get_issues, and the routes
\* of SwarmAPIServer that call them
\* ============================================================
\* requests one behaviour sends to the server
MaxRequests == 2

\* a record whose named fields are missing or unparsable
Malformed(issue, fields) == [issue EXCEPT !.bad = fields]

\* records of the batches the issue source hands over
QueryIssues ==
    { Issue("open", {}, 0, Hour, <<>>),
      Issue("open", {"blocked"}, 0, 48 * Hour + 1, <<>>),
      Issue("closed", {}, 0, Hour, <<Day>>),
      Malformed(Issue("open", {"blocked"}, 0, Hour, <<>>), {"updated_at"}),
      Malformed(Issue("closed", {}, 0, Hour, <<Day>>), {"closed_at"}),
      Malformed(Issue("open", {"urgent"}, 0, Hour, <<>>), {"html_url"}) }

QueryLists ==
    {Numbered(l) : l \in UNION {[1..n -> QueryIssues] : n \in 0..MaxIssues}}

\* an exception left the call
Raised == [raised |-> TRUE]

\* get_completion_metrics() on the list the fetch returns: no statement of
\* it catches what _flag_issues_for_intervention raises
get_completion_metrics(l, cfg) ==
    IF l = <<>>
    THEN [raised |-> FALSE,
          metrics |-> [total_issues |-> 0,
                       completed_issues |-> 0,
                       in_progress_issues |-> 0,
                       ready_issues |-> 0,
                       blocked_issues |-> 0,
                       completion_percentage |-> 0],
          velocity_trend |-> <<>>,
          estimated_completion_date |-> <<>>,
          confidence_level |-> 0,
          flagged_issues |-> <<>>]
    ELSE IF \E k \in 1..Len(l) : FlagRaises(l[k], cfg)
    THEN Raised
    ELSE LET metrics == calculate_issue_metrics(l)
             velocity == calculate_velocity(l, VelocityDays)
             forecast == calculate_forecast(metrics, velocity)
         IN [raised |-> FALSE,
             metrics |-> metrics,
             velocity_trend |-> <<velocity>>,
             estimated_completion_date |-> forecast.estimated_completion_date,
             confidence_level |-> forecast.confidence_level,
             flagged_issues |-> flag_issues_for_intervention(l, cfg)]

\* issues[offset:offset + limit], for offset >= 0 and limit >= 0
Slice_FromStart(l, offset, limit) ==
    SubSeq(l, 1, IF limit < Len(l) THEN limit ELSE Len(l))

Slice(l, offset, limit) ==
    IF offset >= Len(l) THEN <<>>
    ELSE SubSeq(l, offset + 1, IF offset + limit < Len(l) THEN offset + limit ELSE Len(l))

\* 'has_more': offset + limit < total
HasMore(offset, limit, total) == offset + limit < total

\* one entry of formatted_issues
FormatIssue(issue) ==
    [number |-> issue.number,
     status |-> issue.state,
     labels |-> issue.labels,
     updated_at |-> issue.updated_at]

\* get_issues(status, flagged, limit, offset) on the list the fetch returns
get_issues(l, cfg, status_filter, flagged, limit, offset) ==
    LET by_status == IF status_filter # None
                     THEN SelectSeq(l, LAMBDA i : i.state = status_filter)
                     ELSE l
        flag_raises == flagged /\ \E k \in 1..Len(by_status) : FlagRaises(by_status[k], cfg)
        flagged_issues == flag_issues_for_intervention(by_status, cfg)
        flagged_numbers == {flagged_issues[k].number : k \in 1..Len(flagged_issues)}
        filtered == IF flagged
                    THEN SelectSeq(by_status, LAMBDA i : i.number \in flagged_numbers)
                    ELSE by_status
        total == Len(filtered)
        paginated == Slice(filtered, offset, limit)
        format_raises == \E k \in 1..Len(paginated) : "html_url" \in paginated[k].bad
    IN IF flag_raises \/ format_raises
       THEN Raised
       ELSE [raised |-> FALSE,
             issues |-> [k \in 1..Len(paginated) |-> FormatIssue(paginated[k])],
             total |-> total,
             limit |-> limit,
             offset |-> offset,
             has_more |-> HasMore(offset, limit, total)]

\* ------------------------------------------------------ SwarmAPIServer
\* query parameters of GET /project/issues
StatusFilters == {None, "open"}
RequestedLimits == {0, 1, 101}
Offsets == {0, 1}

\* limit = min(request.args.get('limit', 20, type=int), 100)
CapLimit(requested) == IF requested < 100 THEN requested ELSE 100

\* jsonify({'success': False, 'error': str(e)}), 500
Failure(message) == [success |-> FALSE, error |-> message]

\* the server sends one response
Respond(endpoint, code, body) ==
    api' = [served |-> Append(api.served, code),
            response |-> <<[endpoint |-> endpoint, code |-> code, body |-> body]>>]

\* what no route changes
ServerFrame ==
    /\ UNCHANGED <<issues, flag_cfg, monitor_url>>
    /\ UNCHANGED <<github_repo, swarm_id, now, ticks, snap, trackerVars, logVars>>
    /\ UNCHANGED <<lifeVars, sendVars>>

\* GET /health: no try/except, nothing in it raises
health ==
    /\ Len(api.served) < MaxRequests
    /\ Respond("/health", 200,
               [status |-> "healthy", timestamp |-> now, swarm_id |-> swarm_id])
    /\ calc' = NoCalc
    /\ ServerFrame

\* GET /status: psutil and the agent monitor answer or raise
status ==
    /\ Len(api.served) < MaxRequests
    /\ \E ok \in BOOLEAN :
          IF ok
          THEN Respond("/status", 200,
                       [status |-> "online",
                        last_heartbeat_sent |-> now,
                        api_quota |-> [used |-> 0, percent_used |-> 0]])
          ELSE Respond("/status", 500, Failure("status"))
    /\ calc' = NoCalc
    /\ ServerFrame

\* GET /project/completion
project_completion ==
    /\ Len(api.served) < MaxRequests
    /\ LET completion_data == get_completion_metrics(issues, flag_cfg)
       IN /\ calc' = [fn |-> "get_completion_metrics", out |-> completion_data]
          /\ IF completion_data.raised
             THEN Respond("/project/completion", 500, Failure("completion"))
             ELSE Respond("/project/completion", 200,
                          [metrics |-> completion_data.metrics,
                           velocity_trend |-> completion_data.velocity_trend,
                           estimated_completion_date |->
                               completion_data.estimated_completion_date,
                           confidence_level |-> completion_data.confidence_level,
                           last_updated |-> now])
    /\ ServerFrame

\* GET /project/issues?status=&flagged=&limit=&offset=
project_issues ==
    /\ Len(api.served) < MaxRequests
    /\ LET completion_data == get_completion_metrics(issues, flag_cfg)
           completion_raised == completion_data.raised
           flagged_count == IF completion_raised THEN 0
                            ELSE Len(completion_data.flagged_issues)
       IN \E status_filter \in StatusFilters, flagged \in BOOLEAN,
             requested \in RequestedLimits, offset \in Offsets :
             LET limit == CapLimit(requested)
                 result == get_issues(issues, flag_cfg, status_filter, flagged,
                                      limit, offset)
             IN /\ calc' = [fn |-> "get_issues",
                            args |-> [status |-> status_filter,
                                      flagged |-> flagged,
                                      requested |-> requested,
                                      limit |-> limit,
                                      offset |-> offset],
                            out |-> result]
                /\ IF result.raised \/ completion_raised
                   THEN Respond("/project/issues", 500, Failure("issues"))
                   ELSE Respond("/project/issues", 200,
                                [issues |-> result.issues,
                                 total |-> result.total,
                                 flagged_count |-> flagged_count,
                                 pagination |-> [limit |-> result.limit,
                                                 offset |-> result.offset,
                                                 has_more |-> result.has_more]])
    /\ ServerFrame

\* GET /agents/activity: the agent monitor answers or raises
agents_activity ==
    /\ Len(api.served) < MaxRequests
    /\ \E ok \in BOOLEAN :
          IF ok
          THEN Respond("/agents/activity", 200, [agents |-> <<>>])
          ELSE Respond("/agents/activity", 500, Failure("activity"))
    /\ calc' = NoCalc
    /\ ServerFrame

\* GET /logs: the agent monitor answers or raises
logs ==
    /\ Len(api.served) < MaxRequests
    /\ \E ok \in BOOLEAN :
          IF ok
          THEN Respond("/logs", 200, [logs |-> <<>>])
          ELSE Respond("/logs", 500, Failure("logs"))
    /\ calc' = NoCalc
    /\ ServerFrame

\* a server whose ProjectTracker is served some batch by the issue source
ApiInit ==
    /\ issues \in QueryLists
    /\ flag_cfg = DefaultFlagCfg
    /\ calc = NoCalc
    /\ api = NoResponses
    /\ now = CalcNow
    /\ ticks = 0
    /\ github_repo = Repo
    /\ swarm_id = DefaultSwarm
    /\ snap = <<>>
    /\ TrackerInit
    /\ LogInit
    /\ monitor_url = None
    /\ LifeInit
    /\ SendIdle

ApiNext ==
    \/ health
    \/ status
    \/ project_completion
    \/ project_issues
    \/ agents_activity
    \/ logs

SpecApi == ApiInit /\ [][ApiNext]_vars

\* ------------------------------------------------------------- claims
\* positions of the issue list, and of its closed and open issues
IssueIdx == 1..Len(issues)

ClosedIdx == {k \in IssueIdx : issues[k].state = "closed"}

OpenIdx == {k \in IssueIdx : issues[k].state = "open"}

\* C23 as stated: the completion percentage (in hundredths) lies between 0
\* and 100 and is 0 exactly when the issue list is empty.
C23_ZeroExactlyWhenEmpty ==
    calc.fn = "issue_metrics" =>
        /\ 0 <= calc.out.completion_percentage
        /\ calc.out.completion_percentage <= 10000
        /\ calc.out.completion_percentage = 0 <=> Len(issues) = 0

\* C23 as amended: the completion percentage lies between 0 and 100, is 0
\* for the empty list, and is 0 exactly when no issue of the list is closed.
C23_ZeroExactlyWhenNoneClosed ==
    calc.fn = "issue_metrics" =>
        /\ 0 <= calc.out.completion_percentage
        /\ calc.out.completion_percentage <= 10000
        /\ Len(issues) = 0 => calc.out.completion_percentage = 0
        /\ calc.out.completion_percentage = 0 <=> ClosedIdx = {}

\* three issues, none of them closed: 0 percent of a non-empty list
C23_Witness ==
    /\ calc.fn = "issue_metrics"
    /\ Len(issues) = 3
    /\ ClosedIdx = {}
    /\ calc.out.completion_percentage = 0

\* open issues with an in-progress label, with a blocked label
InProgressIdx == {k \in OpenIdx : HasLabel(issues[k], in_progress_labels)}

BlockedIdx == {k \in OpenIdx : HasLabel(issues[k], blocked_labels)}

\* C24: ready is open minus in-progress minus blocked, and it is not
\* negative when no open issue carries both kinds of label.
C24_ReadyNonNegativeWithoutOverlap ==
    calc.fn = "issue_metrics" =>
        /\ calc.out.ready_issues =
              Cardinality(OpenIdx) - Cardinality(InProgressIdx) - Cardinality(BlockedIdx)
        /\ InProgressIdx \cap BlockedIdx = {} => calc.out.ready_issues >= 0
        /\ calc.out.ready_issues < 0 => InProgressIdx \cap BlockedIdx # {}

\* one in-progress, one blocked and one other open issue, no overlap
C24_Witness ==
    /\ calc.fn = "issue_metrics"
    /\ Cardinality(InProgressIdx) = 1
    /\ Cardinality(BlockedIdx) = 1
    /\ InProgressIdx \cap BlockedIdx = {}
    /\ calc.out.ready_issues = 1

\* closed issues whose closing lies d whole days before now
ClosedDaysAgo(d) ==
    {k \in ClosedIdx :
        /\ issues[k].closed_at # <<>>
        /\ now - issues[k].closed_at[1] >= 0
        /\ (now - issues[k].closed_at[1]) \div 86400 = d}

\* C25: the velocity window has 7 entries, oldest day first: entry i
\* (counted from 0) is the number of issues closed 6 - i days before now.
C25_WindowOldestFirst ==
    calc.fn = "velocity" =>
        /\ Len(calc.out.last_7_days) = 7
        /\ \A i \in 0..6 :
              calc.out.last_7_days[i + 1] = Cardinality(ClosedDaysAgo(6 - i))

\* two issues closed six days ago, one closed today
C25_Witness ==
    /\ calc.fn = "velocity"
    /\ calc.out.last_7_days = <<2, 0, 0, 0, 0, 0, 1>>

\* sums of the first three and of the last four entries of the window
FirstHalf == calc.out.last_7_days[1] + calc.out.last_7_days[2] + calc.out.last_7_days[3]

SecondHalf ==
    calc.out.last_7_days[4] + calc.out.last_7_days[5]
        + calc.out.last_7_days[6] + calc.out.last_7_days[7]

\* C26: increasing exactly when second half > 1.2 x first half, decreasing
\* exactly when second half < 0.8 x first half, stable otherwise.
C26_TrendByRatio ==
    calc.fn = "velocity" =>
        /\ calc.out.trend \in {"increasing", "decreasing", "stable"}
        /\ calc.out.trend = "increasing" <=> 10 * SecondHalf > 12 * FirstHalf
        /\ calc.out.trend = "decreasing" <=> 10 * SecondHalf < 8 * FirstHalf

\* a second half of exactly 1.2 times the first half is stable
C26_Witness ==
    /\ calc.fn = "velocity"
    /\ FirstHalf = 5
    /\ SecondHalf = 6
    /\ calc.out.trend = "stable"

\* C27: the forecast is unknown exactly when issues_per_day <= 0 (no date,
\* no days_remaining, confidence 0, label Unknown); otherwise the estimated
\* date is the day of now + (total - completed) / issues_per_day days.
C27_ForecastUnknownIffNoVelocity ==
    calc.fn = "forecast" =>
        LET total == calc.out.metrics.total_issues
            completed == calc.out.metrics.completed_issues
            per_day == calc.out.velocity.issues_per_day
            f == calc.out.forecast
        IN /\ per_day <= 0 <=> f.estimated_completion_date = <<>>
           /\ per_day <= 0 =>
                 /\ f.days_remaining = <<>>
                 /\ f.confidence_level = 0
                 /\ f.confidence_label = "Unknown"
           /\ per_day > 0 =>
                 f.estimated_completion_date =
                     <<(now + ((total - completed) * 100 * 86400) \div per_day) \div 86400>>

\* one open issue left and one issue closed in the window: 0.14 per day,
\* so the date lies seven days ahead
C27_Witness ==
    /\ calc.fn = "forecast"
    /\ calc.out.metrics.total_issues - calc.out.metrics.completed_issues = 1
    /\ calc.out.velocity.issues_per_day = 14
    /\ calc.out.forecast.estimated_completion_date = <<now \div 86400 + 7>>

\* C28: the confidence of a computed forecast depends on the trend only
\* (increasing 0.85 High, stable 0.75 Medium, decreasing 0.50 Low), and the
\* confidence of every forecast lies in [0, 1].
C28_ConfidenceByTrend ==
    calc.fn = "forecast" =>
        LET f == calc.out.forecast
            trend == calc.out.velocity.trend
        IN /\ 0 <= f.confidence_level /\ f.confidence_level <= 100
           /\ calc.out.velocity.issues_per_day > 0 =>
                 /\ trend = "increasing" =>
                       (f.confidence_level = 85 /\ f.confidence_label = "High")
                 /\ trend = "stable" =>
                       (f.confidence_level = 75 /\ f.confidence_label = "Medium")
                 /\ trend = "decreasing" =>
                       (f.confidence_level = 50 /\ f.confidence_label = "Low")

\* a forecast computed from a decreasing window
C28_Witness ==
    /\ calc.fn = "forecast"
    /\ calc.out.velocity.issues_per_day > 0
    /\ calc.out.velocity.trend = "decreasing"
    /\ calc.out.forecast.confidence_label = "Low"

\* open issues with a blocked, waiting or on-hold label
BlockedOpenIdx == {k \in OpenIdx : HasLabel(issues[k], blocked_labels)}

\* seconds since the last update of issue k
SinceUpdate(k) == now - issues[k].updated_at

\* the entries of the flagged list for issue number n
EntriesFor(n) == {e \in 1..Len(calc.out) : calc.out[e].number = n}

HasBlockedReason(e) ==
    \E r \in 1..Len(calc.out[e].flag_reason) :
        calc.out[e].flag_reason[r].rule = "Blocked for hours"

\* C29: an open issue with a blocked label whose hours since the last update
\* exceed the threshold is flagged with priority high or critical and the
\* reason 'Blocked for N hours', N the whole hours since the update; at
\* exactly the threshold the rule does not fire.
C29_StaleBlockedIsFlagged ==
    calc.fn = "flags" =>
        \A k \in BlockedOpenIdx :
            /\ SinceUpdate(k) > flag_cfg.blocked_hours * 3600 =>
                  \E e \in EntriesFor(issues[k].number) :
                      /\ calc.out[e].priority \in {"high", "critical"}
                      /\ \E r \in 1..Len(calc.out[e].flag_reason) :
                            calc.out[e].flag_reason[r] =
                                [rule |-> "Blocked for hours", n |-> SinceUpdate(k) \div 3600]
            /\ SinceUpdate(k) = flag_cfg.blocked_hours * 3600 =>
                  \A e \in EntriesFor(issues[k].number) : ~HasBlockedReason(e)

\* threshold 24: an issue updated a little over 48 hours ago is flagged
\* 'Blocked for 48 hours', one updated exactly 24 hours ago is not flagged
C29_Witness ==
    /\ calc.fn = "flags"
    /\ flag_cfg.blocked_hours = 24
    /\ Len(issues) = 2
    /\ issues[1].labels = {"Blocked"} /\ SinceUpdate(1) = 24 * 3600
    /\ SinceUpdate(2) > 48 * 3600
    /\ Len(calc.out) = 1
    /\ calc.out[1].number = 2
    /\ calc.out[1].flag_reason[1] = [rule |-> "Blocked for hours", n |-> 48]

\* issue k matches one of the three trigger rules
MatchesRule(k) ==
    \/ HasLabel(issues[k], blocked_labels) /\ SinceUpdate(k) > flag_cfg.blocked_hours * 3600
    \/ issues[k].comments > flag_cfg.failures_threshold * 2
    \/ HasLabel(issues[k], urgent_labels)

\* C30: every flagged entry belongs to an open issue that matches a rule
\* and has at least one reason; an open issue that matches no rule and any
\* issue that is not open have no entry.
C30_OnlyOpenMatchingFlagged ==
    calc.fn = "flags" =>
        /\ \A e \in 1..Len(calc.out) :
              /\ calc.out[e].flag_reason # <<>>
              /\ \E k \in OpenIdx : issues[k].number = calc.out[e].number /\ MatchesRule(k)
        /\ \A k \in IssueIdx :
              (issues[k].state # "open" \/ ~MatchesRule(k)) => EntriesFor(issues[k].number) = {}

\* a closed issue with a critical label and many comments, an open issue
\* matching no rule, and one open issue that is flagged
C30_Witness ==
    /\ calc.fn = "flags"
    /\ Len(issues) = 3
    /\ issues[1].state = "closed" /\ HasLabel(issues[1], urgent_labels)
    /\ issues[2].state = "open" /\ ~MatchesRule(2)
    /\ Len(calc.out) = 1
    /\ calc.out[1].number = 3

\* severity of a priority under low < medium < high < critical
Severity(p) ==
    CASE p = "low" -> 0 [] p = "medium" -> 1 [] p = "high" -> 2 [] p = "critical" -> 3

\* the reasons of the rules open issue k matches, in the order blocked,
\* comments, critical label, each with the priority its rule stands for
MatchedReasons(k) ==
    (IF HasLabel(issues[k], blocked_labels) /\ SinceUpdate(k) > flag_cfg.blocked_hours * 3600
     THEN <<[rule |-> "Blocked for hours", n |-> SinceUpdate(k) \div 3600, p |-> "high"]>>
     ELSE <<>>)
    \o (IF issues[k].comments > flag_cfg.failures_threshold * 2
        THEN <<[rule |-> "High comment count", n |-> issues[k].comments, p |-> "medium"]>>
        ELSE <<>>)
    \o (IF HasLabel(issues[k], urgent_labels)
        THEN <<[rule |-> "High priority issue", n |-> 0, p |-> "critical"]>>
        ELSE <<>>)

\* C31: the priority of a flagged issue is the highest severity among the
\* rules it matches, and its reason lists one reason per matched rule.
C31_PriorityIsMaxSeverity ==
    calc.fn = "flags" =>
        \A e \in 1..Len(calc.out) :
            \A k \in OpenIdx :
                issues[k].number = calc.out[e].number =>
                    LET m == MatchedReasons(k)
                    IN /\ Len(calc.out[e].flag_reason) = Len(m)
                       /\ \A r \in 1..Len(m) :
                             /\ calc.out[e].flag_reason[r].rule = m[r].rule
                             /\ calc.out[e].flag_reason[r].n = m[r].n
                             /\ Severity(m[r].p) <= Severity(calc.out[e].priority)
                       /\ \E r \in 1..Len(m) : m[r].p = calc.out[e].priority
                       /\ calc.out[e].flag_priority = calc.out[e].priority

\* an issue matching the blocked rule and the comment rule only: high
C31_Witness ==
    /\ calc.fn = "flags"
    /\ Len(calc.out) >= 1
    /\ Len(calc.out[1].flag_reason) = 2
    /\ calc.out[1].flag_reason[1].rule = "Blocked for hours"
    /\ calc.out[1].flag_reason[2].rule = "High comment count"
    /\ calc.out[1].priority = "high"

\* C37: every closed issue counted in total_closed_in_period falls in one
\* day bucket: the daily counts add up to total_closed_in_period, and
\* issues_per_day is that sum divided by the number of days.
C37_BucketsSumToTotal ==
    calc.fn = "velocity" =>
        /\ FirstHalf + SecondHalf = calc.out.total_closed_in_period
        /\ calc.out.issues_per_day = Round2(FirstHalf + SecondHalf, 7)

\* ---------------------------------------------------- query claims
\* C32: get_completion_metrics() lets no error reach its caller, whatever
\* record of the batch has an unparsable timestamp or a missing field
C32_NoErrorPropagates ==
    calc.fn = "get_completion_metrics" => ~calc.out.raised

\* the issues of the batch that pass the filters of the last get_issues call
FilteredIdx ==
    {k \in IssueIdx :
        /\ calc.args.status = None \/ issues[k].state = calc.args.status
        /\ calc.args.flagged =>
              \E e \in {flag_issues_for_intervention(issues, flag_cfg)[j] :
                          j \in 1..Len(flag_issues_for_intervention(issues, flag_cfg))} :
                  e.number = k}

\* the positions of FilteredIdx below k
Rank(k) == Cardinality({j \in FilteredIdx : j < k})

\* C39: a get_issues call that returns gives the elements at positions
\* offset .. offset+limit-1 of the filtered list, in order, total as the
\* size of the filtered list and has_more exactly when offset + limit <
\* total; the limit the server passes on is the requested one capped at 100
C39_PageOfFilteredList ==
    (calc.fn = "get_issues" /\ ~calc.out.raised) =>
        LET offset == calc.args.offset
            limit == calc.out.limit
            page == {k \in FilteredIdx : Rank(k) >= offset /\ Rank(k) < offset + limit}
        IN /\ limit <= 100
           /\ limit = calc.args.requested \/ (calc.args.requested > 100 /\ limit = 100)
           /\ calc.out.offset = offset
           /\ calc.out.total = Cardinality(FilteredIdx)
           /\ Len(calc.out.issues) = Cardinality(page)
           /\ Len(calc.out.issues) <= limit
           /\ \A k \in page :
                 /\ calc.out.issues[Rank(k) - offset + 1].number = k
                 /\ calc.out.issues[Rank(k) - offset + 1].status = issues[k].state
           /\ calc.out.has_more <=> offset + limit < calc.out.total

\* a page from the middle of a filtered list, with more to come
C39_Witness ==
    /\ calc.fn = "get_issues"
    /\ ~calc.out.raised
    /\ calc.args.status = "open"
    /\ calc.args.offset = 1
    /\ Len(calc.out.issues) = 1
    /\ calc.out.issues[1].number = 2
    /\ calc.out.total = 3
    /\ calc.out.has_more
    /\ api.response[1].code = 200

\* C34: every response of the server, the ones of the health probe aside,
\* is either 200 with a body of the form {success: true, data: payload} or
\* 500 with a body of the form {success: false, error: message}
C34_ResponseEnvelope ==
    (api.response # <<>> /\ api.response[1].endpoint # "/health") =>
        LET r == api.response[1]
        IN IF r.code = 200
           THEN DOMAIN r.body = {"success", "data"} /\ r.body.success
           ELSE r.code = 500 /\ DOMAIN r.body = {"success", "error"} /\ ~r.body.success

\* C33: a snapshot collected while the cache serves an issue list reports
\* that list in its project section: total_issues is the length of the list
C33_ProjectSectionFromCache ==
    [][(/\ snap' # snap
        /\ ~snap'[1].raised
        /\ issues_cache # <<>>
        /\ cache_time # <<>>
        /\ now - cache_time[1] < cache_ttl)
       => snap'[1].metrics.project.total_issues = Len(issues_cache[1])]_vars

\* ------------------------------------------------- cache entry claims
\* C36: the list and the capture time a caller is served from were written
\* by the same fetch, and a list is only overwritten by the list of a later
\* request
C36_ListAndTimeReplacedTogether ==
    [][/\ \A c \in FCallers :
             (fpc[c] = "check" /\ fpc'[c] = "serve") => stamp.list = stamp.time
       /\ \A c \in FCallers :
             (fpc[c] = "write_list" /\ fpc'[c] = "write_time")
                => freq[c][1].n > stamp.list]_vars

\* C38: the step in which a fetch fails writes neither the list nor the
\* capture time, and every step that writes one of them belongs to a caller
\* whose request was answered with status 200
C38_OnlySuccessWrites ==
    [][/\ \A c \in FCallers :
             (fpc[c] = "request" /\ fout'[c] = "failed")
                => /\ issues_cache' = issues_cache
                   /\ cache_time' = cache_time
                   /\ stamp' = stamp
       /\ (issues_cache' # issues_cache \/ cache_time' # cache_time \/ stamp' # stamp)
             => \E c \in FCallers :
                   /\ fpc[c] \in {"write_list", "write_time"}
                   /\ fpc'[c] # fpc[c]
                   /\ freq[c] # <<>>
                   /\ freq[c][1].ok]_vars

\* a fetch has failed after the entry of an earlier fetch expired, and the
\* entry is still the earlier fetch's
C38_Witness ==
    /\ \E c \in FCallers : fout[c] = "failed"
    /\ issues_cache # <<>>
    /\ issues_cache[1] # <<>>
    /\ cache_time # <<>>
    /\ now - cache_time[1] >= cache_ttl
    /\ stamp.list = stamp.time
    /\ stamp.list > 0

\* --------------------------------------------------- termination claim
\* a loop thread that is not in a cycle
LoopIdle(t) == lpc[t] \in {"none", "created", "exited"}

\* C35: a loop begins a cycle only while the flag is set; once the flag
\* stays cleared every loop thread exits for good; and a send_heartbeat
\* call of the loop makes at most max_retries attempts and returns
C35_StopEndsTheLoop ==
    /\ [][\A t \in Threads : (lpc[t] = "check" /\ lpc'[t] = "collect") => running]_vars
    /\ (<>[](~running)) => <>[](\A t \in Threads : LoopIdle(t))
    /\ [](\A t \in Threads : att[t] + 1 <= max_retries)
    /\ \A t \in Threads : (lpc[t] \in {"send", "retry_sleep"}) ~> (lpc[t] \in {"log", "sleep"})

\* stop() has cleared the flag and returned, and the loop it stopped has
\* left a cycle that made its last attempt and has exited
C35_Witness ==
    /\ ~running
    /\ \A c \in Callers : pc[c] = "idle"
    /\ \E t \in Threads : lpc[t] = "exited"
    /\ \A t \in Threads : LoopIdle(t)

====
